---- MODULE Spec2Model ----
(***************************************************************************)
(* Model of the local scheduler's scheduling algorithm                      *)
(* (src/src/local_scheduler/local_scheduler_algorithm.cc).                  *)
(*                                                                         *)
(* Every handler of the source is an operator from a state record to a     *)
(* state record; an action installs the record a handler returns.  A       *)
(* failed CHECK/DCHECK terminates the process: the record's `aborted'      *)
(* field is set and the action moves to the terminated state.              *)
(*                                                                         *)
(* A TaskQueueEntry of a regular task is modelled by its task id; a        *)
(* cursor (std::list iterator) into the waiting queue is the task id of    *)
(* the entry it points to.  A task id is queued at most once at a time.    *)
(***************************************************************************)
EXTENDS Integers, Sequences, FiniteSets, TLC

(* ------------------------------ bounds --------------------------------- *)
NumTasks == 4
NumObjects == 2
NumWorkers == 2
NumDrivers == 2
StaticCPU == 2
StaticGPU == 0
NumActors == 2
MaxCounter == 1
MaxCached == 2
MaxActorQueue == 2

(* Number of resource kinds (CPU, GPU). *)
ResourceIndex_MAX == 2

Tasks == 1 .. NumTasks
Objects == 1 .. NumObjects
Workers == 1 .. NumWorkers
Drivers == 1 .. NumDrivers
Actors == 1 .. NumActors
Counters == 0 .. MaxCounter
Resources == 1 .. ResourceIndex_MAX

NoTask == 0
NULL == 0

(* ------------------------- sequence helpers ---------------------------- *)
Range(q) == {q[i] : i \in DOMAIN q}
Back(q) == q[Len(q)]
PopBack(q) == SubSeq(q, 1, Len(q) - 1)
EraseAt(q, i) == SubSeq(q, 1, i - 1) \o SubSeq(q, i + 1, Len(q))
Restrict(f, S) == [x \in S |-> f[x]]
IndexOf(q, x) == CHOOSE i \in DOMAIN q : q[i] = x /\ \A j \in 1 .. (i - 1) : q[j] # x

(* --------------------------- task specs -------------------------------- *)
(* The TaskSpec of task id t: five shapes, repeated cyclically.            *)
Shape(t) == ((t - 1) % 5) + 1
Obj(i) == ((i - 1) % NumObjects) + 1

TaskSpec_driver_id(t) == ((t - 1) % NumDrivers) + 1

(* The by-reference arguments of t, in argument order (arguments passed by *)
(* value are skipped by every loop of the source that walks the args).     *)
TaskSpec_args(t) ==
  CASE Shape(t) = 1 -> << Obj(1) >>
    [] Shape(t) = 2 -> << Obj(1), Obj(2) >>
    [] Shape(t) = 3 -> << Obj(2), Obj(2) >>
    [] Shape(t) = 4 -> << >>
    [] OTHER -> << Obj(2) >>

(* Shape 2 asks for more CPUs than the node has: it can never be assigned,   *)
(* and it has by-reference arguments.                                      *)
TaskSpec_get_required_resource(t) ==
  CASE Shape(t) = 1 -> << 1, 0 >>
    [] Shape(t) = 2 -> << StaticCPU + 1, 0 >>
    [] Shape(t) = 3 -> << 1, 0 >>
    [] Shape(t) = 4 -> << 2, 0 >>
    [] OTHER -> << 1, 1 >>

TaskSpec_is_dependent_on(t, o) ==
  \E i \in DOMAIN TaskSpec_args(t) : TaskSpec_args(t)[i] = o

static_resources == << StaticCPU, StaticGPU >>

(* ------------------------------ state ---------------------------------- *)
VARIABLES
  waiting_task_queue,            \* Seq of task ids
  dispatch_task_queue,           \* Seq of task ids
  local_objects,                 \* object id -> dependent_tasks (Seq of cursors)
  remote_objects,                \* object id -> dependent_tasks (Seq of cursors)
  available_workers,             \* Seq of workers
  executing_workers,             \* Seq of workers
  blocked_workers,               \* Seq of workers
  local_actor_infos,             \* actor id -> LocalActorInfo
  cached_submitted_actor_tasks,  \* Seq of actor task specs
  dynamic_resources,             \* LocalSchedulerState.dynamic_resources
  child_pids,                    \* number of spawned workers not yet registered
  task_in_progress,              \* worker -> task id or NoTask
  actor_mapping,                 \* actor id -> "self" | "other"
  config,                        \* [db, global_scheduler_exists]
  actor_log,                     \* actor id -> counters assigned to its worker
  process_state,                 \* "running" | "aborted" | "undefined"
  last                           \* the last handler and what it emitted

vars == << waiting_task_queue, dispatch_task_queue, local_objects,
           remote_objects, available_workers, executing_workers,
           blocked_workers, local_actor_infos, cached_submitted_actor_tasks,
           dynamic_resources, child_pids, task_in_progress, actor_mapping,
           config, actor_log, process_state, last >>

EmptyMap == [x \in {} |-> << >>]

NoOutput ==
  [assigned |-> << >>, fetches |-> << >>, reconstructs |-> << >>,
   spawned |-> 0, task_table |-> << >>, actor_assigned |-> << >>]

(* The state record a handler works on. *)
Cur(conn, stale) ==
  [waiting_task_queue |-> waiting_task_queue,
   dispatch_task_queue |-> dispatch_task_queue,
   local_objects |-> local_objects,
   remote_objects |-> remote_objects,
   available_workers |-> available_workers,
   executing_workers |-> executing_workers,
   blocked_workers |-> blocked_workers,
   local_actor_infos |-> local_actor_infos,
   cached_submitted_actor_tasks |-> cached_submitted_actor_tasks,
   dynamic_resources |-> dynamic_resources,
   child_pids |-> child_pids,
   task_in_progress |-> task_in_progress,
   actor_mapping |-> actor_mapping,
   config |-> config,
   actor_log |-> actor_log,
   plasma_connected |-> conn,
   stale_read |-> stale,
   aborted |-> FALSE,
   undefined |-> FALSE,
   out |-> NoOutput]

(* A failed CHECK or DCHECK. *)
Abort(s) == [s EXCEPT !.aborted = TRUE]

(* Sequencing of two steps of a handler: nothing runs after an abort. *)
Then(s, F(_)) == IF s.aborted THEN s ELSE F(s)

(* ------------------- collaborators (LocalSchedulerState) --------------- *)
(* assign_task_to_worker: hands the task to the worker, records it as the  *)
(* worker's task in progress and debits dynamic_resources.                 *)
assign_task_to_worker(s, t, w) ==
  [s EXCEPT !.dynamic_resources =
              [k \in Resources |-> @[k] - TaskSpec_get_required_resource(t)[k]],
            !.task_in_progress[w] = t,
            !.out.assigned = Append(@, [task |-> t, worker |-> w,
                                        dynamic |-> s.dynamic_resources,
                                        available |-> s.available_workers])]

(* start_worker: spawns a worker process; its pid waits in child_pids      *)
(* until the process registers.                                            *)
start_worker(s) ==
  [s EXCEPT !.child_pids = @ + 1, !.out.spawned = @ + 1]

(* plasma_fetch with a batch of object ids. *)
plasma_fetch(s, ids) == [s EXCEPT !.out.fetches = Append(@, ids)]

(* The resources of the task in progress of worker w are given back.       *)
release_resources(s, w) ==
  IF s.task_in_progress[w] = NoTask THEN s
  ELSE [s EXCEPT !.dynamic_resources =
          [k \in Resources |->
             @[k] + TaskSpec_get_required_resource(s.task_in_progress[w])[k]]]

(* ... and taken again when a blocked worker resumes.                      *)
acquire_resources(s, w) ==
  IF s.task_in_progress[w] = NoTask THEN s
  ELSE [s EXCEPT !.dynamic_resources =
          [k \in Resources |->
             @[k] - TaskSpec_get_required_resource(s.task_in_progress[w])[k]]]

(* finish_task: the worker asks for its next task, so its previous task    *)
(* is over; a worker that is not blocked still holds the resources.        *)
finish_task(s, w) ==
  LET s1 == IF w \in Range(s.blocked_workers) THEN s ELSE release_resources(s, w)
  IN [s1 EXCEPT !.task_in_progress[w] = NoTask]

(* The task table write of queue_task and add_task_to_actor_queue.         *)
task_table_write(s, t, status, owner, from_global_scheduler) ==
  IF ~s.config.db THEN s
  ELSE [s EXCEPT !.out.task_table =
          Append(@, [op |-> IF from_global_scheduler THEN "update" ELSE "add",
                     task |-> t, status |-> status, owner |-> owner])]

(* --------------------------- worker vectors ---------------------------- *)
worker_in_vector(worker_vector, worker) == worker \in Range(worker_vector)

(* The first occurrence of the worker is swapped with the back element,     *)
(* which is then popped.                                                   *)
remove_worker_from_vector(worker_vector, worker) ==
  IF worker \notin Range(worker_vector) THEN worker_vector
  ELSE LET i == IndexOf(worker_vector, worker)
       IN PopBack([worker_vector EXCEPT ![i] = Back(worker_vector)])

(* --------------------------- dependencies ------------------------------ *)
can_run(s, t) ==
  \A i \in DOMAIN TaskSpec_args(t) : TaskSpec_args(t)[i] \in DOMAIN s.local_objects

(* The cursor is recorded only when the entry is created. *)
fetch_missing_dependency_first_only(s, task_entry_it, obj_id) ==
  IF obj_id \notin DOMAIN s.remote_objects
  THEN LET s0 == IF s.plasma_connected
                 THEN plasma_fetch(s, << obj_id >>) ELSE s
       IN [s0 EXCEPT !.remote_objects = (obj_id :> << task_entry_it >>) @@ @]
  ELSE s

(* A fetch is issued for every registration while connected. *)
fetch_missing_dependency_always_fetch(s, task_entry_it, obj_id) ==
  LET s0 == IF s.plasma_connected THEN plasma_fetch(s, << obj_id >>) ELSE s
      s1 == IF obj_id \notin DOMAIN s.remote_objects
            THEN [s0 EXCEPT !.remote_objects = (obj_id :> << >>) @@ @]
            ELSE s0
  IN [s1 EXCEPT !.remote_objects[obj_id] = Append(@, task_entry_it)]

fetch_missing_dependency(s, task_entry_it, obj_id) ==
  LET s1 == IF obj_id \notin DOMAIN s.remote_objects
            THEN LET s0 == IF s.plasma_connected
                           THEN plasma_fetch(s, << obj_id >>) ELSE s
                 IN [s0 EXCEPT !.remote_objects = (obj_id :> << >>) @@ @]
            ELSE s
  IN [s1 EXCEPT !.remote_objects[obj_id] = Append(@, task_entry_it)]

RECURSIVE fetch_missing_dependencies_loop(_, _, _, _)
fetch_missing_dependencies_loop(s, task_entry_it, i, num_missing_dependencies) ==
  IF i > Len(TaskSpec_args(task_entry_it))
  THEN IF num_missing_dependencies > 0 THEN s ELSE Abort(s)
  ELSE LET obj_id == TaskSpec_args(task_entry_it)[i]
       IN IF obj_id \notin DOMAIN s.local_objects
          THEN fetch_missing_dependencies_loop(
                 fetch_missing_dependency(s, task_entry_it, obj_id),
                 task_entry_it, i + 1, num_missing_dependencies + 1)
          ELSE fetch_missing_dependencies_loop(
                 s, task_entry_it, i + 1, num_missing_dependencies)

fetch_missing_dependencies(s, task_entry_it) ==
  fetch_missing_dependencies_loop(s, task_entry_it, 1, 0)

(* ----------------------------- dispatch -------------------------------- *)
resources_available(s) == \E k \in Resources : s.dynamic_resources[k] > 0

(* No resource test at all. *)
task_satisfied_always(s, t) == TRUE

task_satisfied(s, t) ==
  ~ \E k \in Resources :
      TaskSpec_get_required_resource(t)[k] > s.dynamic_resources[k]

(* The body of the for loop of dispatch_tasks, with the iterator at        *)
(* position i of the dispatch queue.                                       *)
RECURSIVE dispatch_tasks_loop(_, _)
dispatch_tasks_loop(s, i) ==
  IF i > Len(s.dispatch_task_queue) THEN s
  ELSE IF Len(s.available_workers) = 0
  THEN IF s.child_pids = 0 THEN start_worker(s) ELSE s
  ELSE IF ~resources_available(s) THEN s
  ELSE IF ~task_satisfied(s, s.dispatch_task_queue[i])
  THEN dispatch_tasks_loop(s, i + 1)
  ELSE LET worker == Back(s.available_workers)
           s1 == assign_task_to_worker(s, s.dispatch_task_queue[i], worker)
           s2 == [s1 EXCEPT !.available_workers = PopBack(@),
                            !.executing_workers = Append(@, worker),
                            !.dispatch_task_queue = EraseAt(@, i)]
       IN dispatch_tasks_loop(s2, i)

(* Head-of-line blocking: the pass ends at the first task that does not    *)
(* fit.                                                                    *)
RECURSIVE dispatch_tasks_loop_head_blocking(_, _)
dispatch_tasks_loop_head_blocking(s, i) ==
  IF i > Len(s.dispatch_task_queue) THEN s
  ELSE IF Len(s.available_workers) = 0
  THEN IF s.child_pids = 0 THEN start_worker(s) ELSE s
  ELSE IF ~resources_available(s) THEN s
  ELSE IF ~task_satisfied(s, s.dispatch_task_queue[i]) THEN s
  ELSE LET worker == Back(s.available_workers)
           s1 == assign_task_to_worker(s, s.dispatch_task_queue[i], worker)
           s2 == [s1 EXCEPT !.available_workers = PopBack(@),
                            !.executing_workers = Append(@, worker),
                            !.dispatch_task_queue = EraseAt(@, i)]
       IN dispatch_tasks_loop_head_blocking(s2, i)

dispatch_tasks_head_blocking(s) == dispatch_tasks_loop_head_blocking(s, 1)

(* A task that cannot be satisfied is erased from the queue. *)
RECURSIVE dispatch_tasks_loop_drop_misfit(_, _)
dispatch_tasks_loop_drop_misfit(s, i) ==
  IF i > Len(s.dispatch_task_queue) THEN s
  ELSE IF Len(s.available_workers) = 0
  THEN IF s.child_pids = 0 THEN start_worker(s) ELSE s
  ELSE IF ~resources_available(s) THEN s
  ELSE IF ~task_satisfied(s, s.dispatch_task_queue[i])
  THEN dispatch_tasks_loop_drop_misfit(
         [s EXCEPT !.dispatch_task_queue = EraseAt(@, i)], i)
  ELSE LET worker == Back(s.available_workers)
           s1 == assign_task_to_worker(s, s.dispatch_task_queue[i], worker)
           s2 == [s1 EXCEPT !.available_workers = PopBack(@),
                            !.executing_workers = Append(@, worker),
                            !.dispatch_task_queue = EraseAt(@, i)]
       IN dispatch_tasks_loop_drop_misfit(s2, i)

dispatch_tasks_drop_misfit(s) == dispatch_tasks_loop_drop_misfit(s, 1)

(* The pass ends after its first assignment. *)
RECURSIVE dispatch_tasks_loop_one_assignment(_, _)
dispatch_tasks_loop_one_assignment(s, i) ==
  IF i > Len(s.dispatch_task_queue) THEN s
  ELSE IF Len(s.available_workers) = 0
  THEN IF s.child_pids = 0 THEN start_worker(s) ELSE s
  ELSE IF ~resources_available(s) THEN s
  ELSE IF ~task_satisfied(s, s.dispatch_task_queue[i])
  THEN dispatch_tasks_loop_one_assignment(s, i + 1)
  ELSE LET worker == Back(s.available_workers)
           s1 == assign_task_to_worker(s, s.dispatch_task_queue[i], worker)
       IN [s1 EXCEPT !.available_workers = PopBack(@),
                     !.executing_workers = Append(@, worker),
                     !.dispatch_task_queue = EraseAt(@, i)]

dispatch_tasks_one_assignment(s) == dispatch_tasks_loop_one_assignment(s, 1)

(* A worker is started whether or not one is pending registration. *)
RECURSIVE dispatch_tasks_loop_spawn_always(_, _)
dispatch_tasks_loop_spawn_always(s, i) ==
  IF i > Len(s.dispatch_task_queue) THEN s
  ELSE IF Len(s.available_workers) = 0 THEN start_worker(s)
  ELSE IF ~resources_available(s) THEN s
  ELSE IF ~task_satisfied(s, s.dispatch_task_queue[i])
  THEN dispatch_tasks_loop_spawn_always(s, i + 1)
  ELSE LET worker == Back(s.available_workers)
           s1 == assign_task_to_worker(s, s.dispatch_task_queue[i], worker)
           s2 == [s1 EXCEPT !.available_workers = PopBack(@),
                            !.executing_workers = Append(@, worker),
                            !.dispatch_task_queue = EraseAt(@, i)]
       IN dispatch_tasks_loop_spawn_always(s2, i)

dispatch_tasks_spawn_always(s) == dispatch_tasks_loop_spawn_always(s, 1)

(* The task goes to the worker that has been available longest. *)
RECURSIVE dispatch_tasks_loop_front_worker(_, _)
dispatch_tasks_loop_front_worker(s, i) ==
  IF i > Len(s.dispatch_task_queue) THEN s
  ELSE IF Len(s.available_workers) = 0
  THEN IF s.child_pids = 0 THEN start_worker(s) ELSE s
  ELSE IF ~resources_available(s) THEN s
  ELSE IF ~task_satisfied(s, s.dispatch_task_queue[i])
  THEN dispatch_tasks_loop_front_worker(s, i + 1)
  ELSE LET worker == Head(s.available_workers)
           s1 == assign_task_to_worker(s, s.dispatch_task_queue[i], worker)
           s2 == [s1 EXCEPT !.available_workers = Tail(@),
                            !.executing_workers = Append(@, worker),
                            !.dispatch_task_queue = EraseAt(@, i)]
       IN dispatch_tasks_loop_front_worker(s2, i)

dispatch_tasks_front_worker(s) == dispatch_tasks_loop_front_worker(s, 1)

dispatch_tasks(s) == dispatch_tasks_loop(s, 1)

(* ------------------------------ queueing ------------------------------- *)
queue_task(s, queue, t, from_global_scheduler) ==
  task_table_write([s EXCEPT ![queue] = Append(@, t)],
                   t, "QUEUED", "self", from_global_scheduler)

(* The task is put in the waiting queue without registering its missing   *)
(* arguments.                                                              *)
queue_waiting_task_no_fetch(s, t, from_global_scheduler) ==
  queue_task(s, "waiting_task_queue", t, from_global_scheduler)

queue_waiting_task(s, t, from_global_scheduler) ==
  fetch_missing_dependencies(
    queue_task(s, "waiting_task_queue", t, from_global_scheduler), t)

queue_dispatch_task(s, t, from_global_scheduler) ==
  queue_task(s, "dispatch_task_queue", t, from_global_scheduler)

queue_task_locally(s, t, from_global_scheduler) ==
  IF can_run(s, t)
  THEN queue_dispatch_task(s, t, from_global_scheduler)
  ELSE queue_waiting_task(s, t, from_global_scheduler)

give_task_to_global_scheduler(s, t) ==
  IF ~s.config.db \/ ~s.config.global_scheduler_exists
  THEN queue_task_locally(s, t, FALSE)
  ELSE [s EXCEPT !.out.task_table =
          Append(@, [op |-> "add", task |-> t, status |-> "WAITING",
                     owner |-> "nil"])]

resource_constraints_satisfied(s, t) ==
  ~ \E k \in Resources :
      \/ TaskSpec_get_required_resource(t)[k] > static_resources[k]
      \/ TaskSpec_get_required_resource(t)[k] > s.dynamic_resources[k]

(* ------------------------------ handlers ------------------------------- *)
(* The task is queued for dispatch whatever dynamic_resources are. *)
handle_task_submitted_static_only(s, t) ==
  LET static_satisfied ==
        \A k \in Resources :
          TaskSpec_get_required_resource(t)[k] <= static_resources[k]
      s1 == IF /\ static_satisfied
               /\ Len(s.available_workers) > 0
               /\ can_run(s, t)
            THEN queue_dispatch_task(s, t, FALSE)
            ELSE give_task_to_global_scheduler(s, t)
  IN Then(s1, dispatch_tasks)

handle_task_submitted(s, t) ==
  LET s1 == IF /\ resource_constraints_satisfied(s, t)
               /\ Len(s.available_workers) > 0
               /\ can_run(s, t)
            THEN queue_dispatch_task(s, t, FALSE)
            ELSE give_task_to_global_scheduler(s, t)
  IN Then(s1, dispatch_tasks)

handle_task_scheduled(s, t) ==
  IF ~s.config.db \/ ~s.config.global_scheduler_exists THEN Abort(s)
  ELSE Then(queue_task_locally(s, t, TRUE), dispatch_tasks)

handle_worker_available(s, worker) ==
  IF s.task_in_progress[worker] # NoTask THEN Abort(s)
  ELSE IF worker_in_vector(s.available_workers, worker) THEN Abort(s)
  ELSE IF worker_in_vector(s.blocked_workers, worker) THEN Abort(s)
  ELSE LET s1 == [s EXCEPT !.executing_workers =
                              remove_worker_from_vector(@, worker)]
       IN IF worker_in_vector(s1.executing_workers, worker) THEN Abort(s1)
          ELSE dispatch_tasks(
                 [s1 EXCEPT !.available_workers = Append(@, worker)])

(* The worker is only looked for in available_workers. *)
handle_worker_removed_available_only(s, worker) ==
  [s EXCEPT !.available_workers = remove_worker_from_vector(@, worker)]

handle_worker_removed(s, worker) ==
  LET removed_from_available == worker_in_vector(s.available_workers, worker)
      removed_from_executing == worker_in_vector(s.executing_workers, worker)
      removed_from_blocked == worker_in_vector(s.blocked_workers, worker)
      num_times_removed ==
        (IF removed_from_available THEN 1 ELSE 0)
        + (IF removed_from_executing THEN 1 ELSE 0)
        + (IF removed_from_blocked THEN 1 ELSE 0)
      s1 == [s EXCEPT
               !.available_workers = remove_worker_from_vector(@, worker),
               !.executing_workers = remove_worker_from_vector(@, worker),
               !.blocked_workers = remove_worker_from_vector(@, worker)]
  IN IF \/ worker_in_vector(s1.available_workers, worker)
        \/ worker_in_vector(s1.executing_workers, worker)
        \/ worker_in_vector(s1.blocked_workers, worker)
        \/ num_times_removed > 1
     THEN Abort(s1)
     ELSE s1

(* The worker is blocked wherever it was. *)
handle_worker_blocked_unchecked(s, worker) ==
  dispatch_tasks(
    [s EXCEPT !.executing_workers = remove_worker_from_vector(@, worker),
              !.blocked_workers = Append(@, worker)])

handle_worker_blocked(s, worker) ==
  IF ~worker_in_vector(s.executing_workers, worker) THEN Abort(s)
  ELSE IF worker_in_vector(s.blocked_workers, worker) THEN Abort(s)
  ELSE dispatch_tasks(
         [s EXCEPT !.executing_workers = remove_worker_from_vector(@, worker),
                   !.blocked_workers = Append(@, worker)])

(* The worker is not taken out of blocked_workers. *)
handle_worker_unblocked_keep_blocked(s, worker) ==
  IF ~worker_in_vector(s.blocked_workers, worker) THEN Abort(s)
  ELSE IF worker_in_vector(s.executing_workers, worker) THEN Abort(s)
  ELSE [s EXCEPT !.executing_workers = Append(@, worker)]

(* A dispatch pass follows the move. *)
handle_worker_unblocked_redispatch(s, worker) ==
  IF ~worker_in_vector(s.blocked_workers, worker) THEN Abort(s)
  ELSE IF worker_in_vector(s.executing_workers, worker) THEN Abort(s)
  ELSE dispatch_tasks(
         [s EXCEPT !.blocked_workers = remove_worker_from_vector(@, worker),
                   !.executing_workers = Append(@, worker)])

handle_worker_unblocked(s, worker) ==
  IF ~worker_in_vector(s.blocked_workers, worker) THEN Abort(s)
  ELSE IF worker_in_vector(s.executing_workers, worker) THEN Abort(s)
  ELSE [s EXCEPT !.blocked_workers = remove_worker_from_vector(@, worker),
                 !.executing_workers = Append(@, worker)]

(* The loop of handle_object_available over entry.dependent_tasks.  A      *)
(* cursor whose entry is no longer in the waiting queue is dangling:       *)
(* dereferencing it is undefined behaviour.  Either the process crashes,   *)
(* or the freed list node still reads as the entry it held (stale_read):   *)
(* the task is pushed to the dispatch queue once more.                     *)
RECURSIVE handle_object_available_loop(_, _, _)
handle_object_available_loop(s, dependent_tasks, j) ==
  IF j > Len(dependent_tasks) THEN s
  ELSE LET it == dependent_tasks[j]
       IN IF it \notin Range(s.waiting_task_queue)
          THEN IF s.stale_read
               THEN handle_object_available_loop(
                      [s EXCEPT !.dispatch_task_queue = Append(@, it),
                                !.undefined = TRUE],
                      dependent_tasks, j + 1)
               ELSE Abort([s EXCEPT !.undefined = TRUE])
          ELSE IF can_run(s, it)
          THEN handle_object_available_loop(
                 [s EXCEPT !.dispatch_task_queue = Append(@, it),
                           !.waiting_task_queue =
                              EraseAt(@, IndexOf(@, it))],
                 dependent_tasks, j + 1)
          ELSE handle_object_available_loop(s, dependent_tasks, j + 1)

(* The entry is copied to local_objects but stays in remote_objects. *)
handle_object_available_keep_remote(s, object_id) ==
  LET entry == IF object_id \in DOMAIN s.remote_objects
               THEN s.remote_objects[object_id] ELSE << >>
  IN IF object_id \in DOMAIN s.local_objects THEN Abort(s)
     ELSE LET s2 == [s EXCEPT !.local_objects = (object_id :> entry) @@ @]
          IN IF entry = << >> THEN s2
             ELSE Then(handle_object_available_loop(s2, entry, 1),
                       dispatch_tasks)

(* An object that is already local is entered once more. *)
handle_object_available_overwrite(s, object_id) ==
  LET entry == IF object_id \in DOMAIN s.remote_objects
               THEN s.remote_objects[object_id] ELSE << >>
      s1 == [s EXCEPT !.remote_objects = Restrict(@, DOMAIN @ \ {object_id})]
      s2 == [s1 EXCEPT !.local_objects =
               (object_id :> entry) @@ Restrict(@, DOMAIN @ \ {object_id})]
  IN IF entry = << >> THEN s2
     ELSE Then(handle_object_available_loop(s2, entry, 1), dispatch_tasks)

handle_object_available(s, object_id) ==
  LET entry == IF object_id \in DOMAIN s.remote_objects
               THEN s.remote_objects[object_id] ELSE << >>
      s1 == [s EXCEPT !.remote_objects = Restrict(@, DOMAIN @ \ {object_id})]
  IN IF object_id \in DOMAIN s1.local_objects THEN Abort(s1)
     ELSE LET s2 == [s1 EXCEPT !.local_objects = (object_id :> entry) @@ @]
          IN IF entry = << >> THEN s2
             ELSE Then(handle_object_available_loop(s2, entry, 1),
                       dispatch_tasks)

(* The second loop of handle_object_removed: entry i of the waiting queue, *)
(* argument a of its task.                                                 *)
RECURSIVE handle_object_removed_loop(_, _, _, _)
handle_object_removed_loop(s, removed_object_id, i, a) ==
  IF i > Len(s.waiting_task_queue) THEN s
  ELSE LET it == s.waiting_task_queue[i]
       IN IF a > Len(TaskSpec_args(it))
          THEN handle_object_removed_loop(s, removed_object_id, i + 1, 1)
          ELSE IF TaskSpec_args(it)[a] = removed_object_id
          THEN handle_object_removed_loop(
                 fetch_missing_dependency(s, it, removed_object_id),
                 removed_object_id, i, a + 1)
          ELSE handle_object_removed_loop(s, removed_object_id, i, a + 1)

(* The dispatch queue is not searched for tasks that need the object. *)
handle_object_removed_keep_dispatch(s, removed_object_id) ==
  IF removed_object_id \notin DOMAIN s.local_objects THEN Abort(s)
  ELSE handle_object_removed_loop(
         [s EXCEPT !.local_objects =
                      Restrict(@, DOMAIN @ \ {removed_object_id})],
         removed_object_id, 1, 1)

(* The tasks are moved to waiting but no fetch is registered for them. *)
handle_object_removed_no_refetch(s, removed_object_id) ==
  IF removed_object_id \notin DOMAIN s.local_objects THEN Abort(s)
  ELSE LET Dependent(t) == TaskSpec_is_dependent_on(t, removed_object_id)
           Independent(t) == ~TaskSpec_is_dependent_on(t, removed_object_id)
       IN [s EXCEPT
             !.local_objects = Restrict(@, DOMAIN @ \ {removed_object_id}),
             !.waiting_task_queue =
                @ \o SelectSeq(s.dispatch_task_queue, Dependent),
             !.dispatch_task_queue = SelectSeq(@, Independent)]

(* The tasks taken out of dispatch are put at the head of waiting. *)
handle_object_removed_to_head(s, removed_object_id) ==
  IF removed_object_id \notin DOMAIN s.local_objects THEN Abort(s)
  ELSE LET Dependent(t) == TaskSpec_is_dependent_on(t, removed_object_id)
           Independent(t) == ~TaskSpec_is_dependent_on(t, removed_object_id)
           s1 == [s EXCEPT
                    !.local_objects = Restrict(@, DOMAIN @ \ {removed_object_id}),
                    !.waiting_task_queue =
                       SelectSeq(s.dispatch_task_queue, Dependent) \o @,
                    !.dispatch_task_queue = SelectSeq(@, Independent)]
       IN handle_object_removed_loop(s1, removed_object_id, 1, 1)

handle_object_removed(s, removed_object_id) ==
  IF removed_object_id \notin DOMAIN s.local_objects THEN Abort(s)
  ELSE LET Dependent(t) == TaskSpec_is_dependent_on(t, removed_object_id)
           Independent(t) == ~TaskSpec_is_dependent_on(t, removed_object_id)
           s1 == [s EXCEPT
                    !.local_objects = Restrict(@, DOMAIN @ \ {removed_object_id}),
                    !.waiting_task_queue =
                       @ \o SelectSeq(s.dispatch_task_queue, Dependent),
                    !.dispatch_task_queue = SelectSeq(@, Independent)]
       IN handle_object_removed_loop(s1, removed_object_id, 1, 1)

(* Each call erases at most one task of the driver from the dispatch queue. *)
handle_driver_removed_one_dispatch_task(s, driver_id) ==
  LET Kept(t) == TaskSpec_driver_id(t) # driver_id
      purged == [o \in DOMAIN s.remote_objects |->
                   SelectSeq(s.remote_objects[o], Kept)]
      q == s.dispatch_task_queue
      first == {i \in DOMAIN q :
                  /\ ~Kept(q[i])
                  /\ \A j \in 1 .. (i - 1) : Kept(q[j])}
  IN [s EXCEPT
        !.remote_objects =
           Restrict(purged, {o \in DOMAIN purged : Len(purged[o]) # 0}),
        !.waiting_task_queue = SelectSeq(@, Kept),
        !.dispatch_task_queue =
           IF first = {} THEN @ ELSE EraseAt(@, CHOOSE i \in first : TRUE)]

(* The dispatch queue is left as it is. *)
handle_driver_removed_keep_dispatch(s, driver_id) ==
  LET Kept(t) == TaskSpec_driver_id(t) # driver_id
      purged == [o \in DOMAIN s.remote_objects |->
                   SelectSeq(s.remote_objects[o], Kept)]
  IN [s EXCEPT
        !.remote_objects =
           Restrict(purged, {o \in DOMAIN purged : Len(purged[o]) # 0}),
        !.waiting_task_queue = SelectSeq(@, Kept)]

(* The cursors in remote_objects are not purged. *)
handle_driver_removed_no_purge(s, driver_id) ==
  LET Kept(t) == TaskSpec_driver_id(t) # driver_id
  IN [s EXCEPT !.waiting_task_queue = SelectSeq(@, Kept),
               !.dispatch_task_queue = SelectSeq(@, Kept)]

handle_driver_removed(s, driver_id) ==
  LET Kept(t) == TaskSpec_driver_id(t) # driver_id
      dangling == \E o \in DOMAIN s.remote_objects :
                    \E j \in DOMAIN s.remote_objects[o] :
                      s.remote_objects[o][j] \notin Range(s.waiting_task_queue)
      purged == [o \in DOMAIN s.remote_objects |->
                   SelectSeq(s.remote_objects[o], Kept)]
  IN IF dangling /\ ~s.stale_read THEN Abort([s EXCEPT !.undefined = TRUE])
     ELSE [s EXCEPT
             !.undefined = dangling,
             !.remote_objects =
                Restrict(purged, {o \in DOMAIN purged : Len(purged[o]) # 0}),
             !.waiting_task_queue = SelectSeq(@, Kept),
             !.dispatch_task_queue = SelectSeq(@, Kept)]

(* The object ids of a table, in the order the table is iterated. *)
RECURSIVE IdsOf(_)
IdsOf(S) ==
  IF S = {} THEN << >>
  ELSE LET m == CHOOSE x \in S : \A y \in S : x <= y
       IN << m >> \o IdsOf(S \ {m})

(* The connection to the object store is not tested. *)
fetch_object_timeout_handler_unconditional(s) ==
  LET object_ids == IdsOf(DOMAIN s.remote_objects)
  IN [plasma_fetch(s, object_ids) EXCEPT !.out.reconstructs = object_ids]

fetch_object_timeout_handler(s) ==
  IF ~s.plasma_connected THEN s
  ELSE LET object_ids == IdsOf(DOMAIN s.remote_objects)
       IN [plasma_fetch(s, object_ids) EXCEPT !.out.reconstructs = object_ids]

(* Only the waiting queue is counted. *)
provide_scheduler_info_waiting_only(s) ==
  [algorithm_state |-> s,
   info |-> [task_queue_length |-> Len(s.waiting_task_queue),
             available_workers |-> Len(s.available_workers),
             dynamic_resources |-> [i \in Resources |-> s.dynamic_resources[i]],
             static_resources |-> [i \in Resources |-> static_resources[i]]]]

(* provide_scheduler_info fills *info and returns nothing: the result is   *)
(* the state it leaves and the info it wrote.  total_num_workers counts    *)
(* the connected clients of the local scheduler, which are not part of     *)
(* the scheduling algorithm's state; the field is left out.                *)
provide_scheduler_info(s) ==
  LET waiting_task_queue_length == Len(s.waiting_task_queue)
      dispatch_task_queue_length == Len(s.dispatch_task_queue)
  IN [algorithm_state |-> s,
      info |-> [task_queue_length |->
                  waiting_task_queue_length + dispatch_task_queue_length,
                available_workers |-> Len(s.available_workers),
                dynamic_resources |->
                  [i \in Resources |-> s.dynamic_resources[i]],
                static_resources |->
                  [i \in Resources |-> static_resources[i]]]]

(* ------------------------------- actors -------------------------------- *)
(* An actor task spec is [actor_id, actor_counter]; the worker of actor a  *)
(* is denoted by a itself, NULL is no worker.  Actor tasks reserve no      *)
(* resources.                                                              *)
ActorTasks == [actor_id : Actors, actor_counter : Counters]

TaskSpec_actor_id(spec) == spec.actor_id
TaskSpec_actor_counter(spec) == spec.actor_counter

(* assign_task_to_worker for an actor task; actor_log records the counters *)
(* handed to the actor's worker since its LocalActorInfo was created.      *)
assign_actor_task_to_worker(s, spec, worker) ==
  [s EXCEPT !.out.actor_assigned =
               Append(@, [actor_id |-> spec.actor_id,
                          actor_counter |-> spec.actor_counter,
                          worker |-> worker]),
            !.actor_log[spec.actor_id] = Append(@, spec.actor_counter)]

create_actor(s, actor_id, worker) ==
  IF actor_id \in DOMAIN s.local_actor_infos THEN Abort(s)
  ELSE [s EXCEPT
          !.local_actor_infos =
             (actor_id :> [task_counter |-> 0, task_queue |-> << >>,
                           worker |-> worker, worker_available |-> FALSE]) @@ @,
          !.actor_log = (actor_id :> << >>) @@ @]

(* Only the worker is forgotten: the entry, its counter and its queue stay. *)
remove_actor_keep_queue(s, actor_id) ==
  IF actor_id \notin DOMAIN s.local_actor_infos THEN Abort(s)
  ELSE [s EXCEPT !.local_actor_infos[actor_id] =
                    [@ EXCEPT !.worker = NULL, !.worker_available = FALSE]]

remove_actor(s, actor_id) ==
  IF actor_id \notin DOMAIN s.local_actor_infos THEN Abort(s)
  ELSE [s EXCEPT
          !.local_actor_infos = Restrict(@, DOMAIN @ \ {actor_id}),
          !.actor_log = Restrict(@, DOMAIN @ \ {actor_id})]

(* A dispatch that hands over the head of the queue whatever its counter. *)
dispatch_actor_task_any_head(s, actor_id) ==
  IF actor_id \notin DOMAIN s.actor_mapping THEN Abort(s)
  ELSE IF s.actor_mapping[actor_id] # "self" THEN Abort(s)
  ELSE IF actor_id \notin DOMAIN s.local_actor_infos THEN Abort(s)
  ELSE LET entry == s.local_actor_infos[actor_id]
       IN IF entry.task_queue = << >> THEN s
          ELSE IF ~entry.worker_available THEN s
          ELSE [assign_actor_task_to_worker(s, Head(entry.task_queue),
                                            entry.worker)
                  EXCEPT !.local_actor_infos[actor_id] =
                           [@ EXCEPT !.task_counter = @ + 1,
                                     !.worker_available = FALSE,
                                     !.task_queue = Tail(@)]]

(* The worker stays marked available after the assignment. *)
dispatch_actor_task_keep_available(s, actor_id) ==
  IF actor_id \notin DOMAIN s.actor_mapping THEN Abort(s)
  ELSE IF s.actor_mapping[actor_id] # "self" THEN Abort(s)
  ELSE IF actor_id \notin DOMAIN s.local_actor_infos THEN Abort(s)
  ELSE LET entry == s.local_actor_infos[actor_id]
       IN IF entry.task_queue = << >> THEN s
          ELSE LET first_task == Head(entry.task_queue)
                   next_task_counter == TaskSpec_actor_counter(first_task)
               IN IF next_task_counter # entry.task_counter
                  THEN IF next_task_counter > entry.task_counter
                       THEN s ELSE Abort(s)
                  ELSE IF ~entry.worker_available THEN s
                  ELSE [assign_actor_task_to_worker(s, first_task, entry.worker)
                          EXCEPT !.local_actor_infos[actor_id] =
                                   [@ EXCEPT !.task_counter = @ + 1,
                                             !.task_queue = Tail(@)]]

dispatch_actor_task(s, actor_id) ==
  IF actor_id \notin DOMAIN s.actor_mapping THEN Abort(s)
  ELSE IF s.actor_mapping[actor_id] # "self" THEN Abort(s)
  ELSE IF actor_id \notin DOMAIN s.local_actor_infos THEN Abort(s)
  ELSE LET entry == s.local_actor_infos[actor_id]
       IN IF entry.task_queue = << >> THEN s
          ELSE LET first_task == Head(entry.task_queue)
                   next_task_counter == TaskSpec_actor_counter(first_task)
               IN IF next_task_counter # entry.task_counter
                  THEN IF next_task_counter > entry.task_counter
                       THEN s ELSE Abort(s)
                  ELSE IF ~entry.worker_available THEN s
                  ELSE [assign_actor_task_to_worker(s, first_task, entry.worker)
                          EXCEPT !.local_actor_infos[actor_id] =
                                   [@ EXCEPT !.task_counter = @ + 1,
                                             !.worker_available = FALSE,
                                             !.task_queue = Tail(@)]]

handle_actor_worker_connect(s, actor_id, worker) ==
  LET s1 == IF actor_id \notin DOMAIN s.local_actor_infos
            THEN create_actor(s, actor_id, worker)
            ELSE [s EXCEPT !.local_actor_infos[actor_id].worker = worker]
  IN Then(s1, LAMBDA x : dispatch_actor_task(x, actor_id))

handle_actor_worker_disconnect(s, actor_id) == remove_actor(s, actor_id)

(* The position the while loop of add_task_to_actor_queue stops at. *)
RECURSIVE InsertPosition(_, _, _)
InsertPosition(task_queue, task_counter, it) ==
  IF it <= Len(task_queue)
     /\ task_counter > TaskSpec_actor_counter(task_queue[it])
  THEN InsertPosition(task_queue, task_counter, it + 1)
  ELSE it

(* A task whose counter is behind the actor's is dropped. *)
add_task_to_actor_queue_drop_stale(s, spec, from_global_scheduler) ==
  LET actor_id == TaskSpec_actor_id(spec)
      s1 == IF actor_id \notin DOMAIN s.local_actor_infos
            THEN create_actor(s, actor_id, NULL) ELSE s
      entry == s1.local_actor_infos[actor_id]
      task_counter == TaskSpec_actor_counter(spec)
      it == InsertPosition(entry.task_queue, task_counter, 1)
  IN IF task_counter < entry.task_counter THEN s1
     ELSE task_table_write(
            [s1 EXCEPT !.local_actor_infos[actor_id].task_queue =
                          SubSeq(@, 1, it - 1) \o << spec >>
                            \o SubSeq(@, it, Len(@))],
            spec, "QUEUED", "self", from_global_scheduler)

add_task_to_actor_queue(s, spec, from_global_scheduler) ==
  LET actor_id == TaskSpec_actor_id(spec)
      s1 == IF actor_id \notin DOMAIN s.local_actor_infos
            THEN create_actor(s, actor_id, NULL) ELSE s
      entry == s1.local_actor_infos[actor_id]
      task_counter == TaskSpec_actor_counter(spec)
      it == InsertPosition(entry.task_queue, task_counter, 1)
  IN IF task_counter < entry.task_counter THEN Abort(s1)
     ELSE task_table_write(
            [s1 EXCEPT !.local_actor_infos[actor_id].task_queue =
                          SubSeq(@, 1, it - 1) \o << spec >>
                            \o SubSeq(@, it, Len(@))],
            spec, "QUEUED", "self", from_global_scheduler)

give_task_to_local_scheduler(s, spec, local_scheduler_id) ==
  IF ~s.config.db \/ ~s.config.global_scheduler_exists THEN Abort(s)
  ELSE [s EXCEPT !.out.task_table =
          Append(@, [op |-> "add", task |-> spec, status |-> "SCHEDULED",
                     owner |-> local_scheduler_id])]

(* A task forwarded to another node is cached as well. *)
handle_actor_task_submitted_forward_and_cache(s, spec) ==
  LET actor_id == TaskSpec_actor_id(spec)
  IN IF actor_id \notin DOMAIN s.actor_mapping
     THEN [s EXCEPT !.cached_submitted_actor_tasks = Append(@, spec)]
     ELSE IF s.actor_mapping[actor_id] = "self"
     THEN Then(add_task_to_actor_queue(s, spec, FALSE),
               LAMBDA x : dispatch_actor_task(x, actor_id))
     ELSE give_task_to_local_scheduler(
            [s EXCEPT !.cached_submitted_actor_tasks = Append(@, spec)],
            spec, s.actor_mapping[actor_id])

handle_actor_task_submitted(s, spec) ==
  LET actor_id == TaskSpec_actor_id(spec)
  IN IF actor_id \notin DOMAIN s.actor_mapping
     THEN [s EXCEPT !.cached_submitted_actor_tasks = Append(@, spec)]
     ELSE IF s.actor_mapping[actor_id] = "self"
     THEN Then(add_task_to_actor_queue(s, spec, FALSE),
               LAMBDA x : dispatch_actor_task(x, actor_id))
     ELSE give_task_to_local_scheduler(s, spec, s.actor_mapping[actor_id])

RECURSIVE handle_actor_creation_notification_loop(_, _, _)
handle_actor_creation_notification_loop(s, num_cached_actor_tasks, i) ==
  IF i > num_cached_actor_tasks \/ s.aborted THEN s
  ELSE handle_actor_creation_notification_loop(
         handle_actor_task_submitted(s, s.cached_submitted_actor_tasks[i]),
         num_cached_actor_tasks, i + 1)

(* The whole array is cleared after the replay. *)
handle_actor_creation_notification_clear_all(s, actor_id) ==
  LET num_cached_actor_tasks == Len(s.cached_submitted_actor_tasks)
      s1 == handle_actor_creation_notification_loop(
              s, num_cached_actor_tasks, 1)
  IN IF s1.aborted THEN s1
     ELSE [s1 EXCEPT !.cached_submitted_actor_tasks = << >>]

(* The replayed entries are not erased. *)
handle_actor_creation_notification_no_erase(s, actor_id) ==
  handle_actor_creation_notification_loop(
    s, Len(s.cached_submitted_actor_tasks), 1)

handle_actor_creation_notification(s, actor_id) ==
  LET num_cached_actor_tasks == Len(s.cached_submitted_actor_tasks)
      s1 == handle_actor_creation_notification_loop(
              s, num_cached_actor_tasks, 1)
  IN IF s1.aborted THEN s1
     ELSE [s1 EXCEPT !.cached_submitted_actor_tasks =
                        SubSeq(@, num_cached_actor_tasks + 1, Len(@))]

handle_actor_task_scheduled(s, spec) ==
  LET actor_id == TaskSpec_actor_id(spec)
  IN IF ~s.config.db \/ ~s.config.global_scheduler_exists THEN Abort(s)
     ELSE IF actor_id \in DOMAIN s.actor_mapping
             /\ s.actor_mapping[actor_id] # "self"
     THEN Abort(s)
     ELSE Then(add_task_to_actor_queue(s, spec, TRUE),
               LAMBDA x : dispatch_actor_task(x, actor_id))

handle_actor_worker_available(s, worker) ==
  LET actor_id == worker
  IN IF actor_id \notin DOMAIN s.local_actor_infos THEN Abort(s)
     ELSE IF s.local_actor_infos[actor_id].worker # worker THEN Abort(s)
     ELSE IF s.local_actor_infos[actor_id].worker_available THEN Abort(s)
     ELSE dispatch_actor_task(
            [s EXCEPT !.local_actor_infos[actor_id].worker_available = TRUE],
            actor_id)

(* ------------------------------ actions -------------------------------- *)
Init ==
  /\ waiting_task_queue = << >>
  /\ dispatch_task_queue = << >>
  /\ local_objects = EmptyMap
  /\ remote_objects = EmptyMap
  /\ available_workers = << >>
  /\ executing_workers = << >>
  /\ blocked_workers = << >>
  /\ local_actor_infos = EmptyMap
  /\ cached_submitted_actor_tasks = << >>
  /\ dynamic_resources = static_resources
  /\ child_pids = 0
  /\ task_in_progress = [w \in Workers |-> NoTask]
  /\ actor_mapping = EmptyMap
  /\ config = [db |-> TRUE, global_scheduler_exists |-> TRUE]
  /\ actor_log = EmptyMap
  /\ process_state = "running"
  /\ last = [ev |-> "init", arg |-> 0, out |-> NoOutput]

(* The state after the handler `ev' returned s.  An aborted process has    *)
(* no state left.                                                          *)
Install(s, ev, arg) ==
  IF s.aborted
  THEN /\ waiting_task_queue' = << >>
       /\ dispatch_task_queue' = << >>
       /\ local_objects' = EmptyMap
       /\ remote_objects' = EmptyMap
       /\ available_workers' = << >>
       /\ executing_workers' = << >>
       /\ blocked_workers' = << >>
       /\ local_actor_infos' = EmptyMap
       /\ cached_submitted_actor_tasks' = << >>
       /\ dynamic_resources' = static_resources
       /\ child_pids' = 0
       /\ task_in_progress' = [w \in Workers |-> NoTask]
       /\ actor_mapping' = EmptyMap
       /\ actor_log' = EmptyMap
       /\ process_state' = "aborted"
       /\ last' = [ev |-> ev, arg |-> arg, out |-> NoOutput]
       /\ UNCHANGED config
  ELSE /\ waiting_task_queue' = s.waiting_task_queue
       /\ dispatch_task_queue' = s.dispatch_task_queue
       /\ local_objects' = s.local_objects
       /\ remote_objects' = s.remote_objects
       /\ available_workers' = s.available_workers
       /\ executing_workers' = s.executing_workers
       /\ blocked_workers' = s.blocked_workers
       /\ local_actor_infos' = s.local_actor_infos
       /\ cached_submitted_actor_tasks' = s.cached_submitted_actor_tasks
       /\ dynamic_resources' = s.dynamic_resources
       /\ child_pids' = s.child_pids
       /\ task_in_progress' = s.task_in_progress
       /\ actor_mapping' = s.actor_mapping
       /\ actor_log' = s.actor_log
       /\ process_state' = IF s.undefined THEN "undefined" ELSE "running"
       /\ last' = [ev |-> ev, arg |-> arg, out |-> s.out]
       /\ UNCHANGED config

Running == process_state = "running"

(* Task ids are unique: a task is submitted again only when its previous    *)
(* submission is neither queued nor in progress on a worker.               *)
Queued(t) ==
  \/ t \in Range(waiting_task_queue)
  \/ t \in Range(dispatch_task_queue)
  \/ \E w \in Workers : task_in_progress[w] = t

TaskSubmitted ==
  \E t \in Tasks, conn \in BOOLEAN :
    /\ Running /\ ~Queued(t)
    /\ Install(handle_task_submitted(Cur(conn, FALSE), t), "task_submitted", t)

TaskScheduled ==
  \E t \in Tasks, conn \in BOOLEAN :
    /\ Running /\ ~Queued(t)
    /\ config.global_scheduler_exists
    /\ Install(handle_task_scheduled(Cur(conn, FALSE), t), "task_scheduled", t)

ObjectAvailable ==
  \E o \in Objects, stale \in BOOLEAN :
    /\ Running
    /\ Install(handle_object_available(Cur(FALSE, stale), o),
               "object_available", o)

ObjectRemoved ==
  \E o \in Objects, conn \in BOOLEAN :
    /\ Running
    /\ Install(handle_object_removed(Cur(conn, FALSE), o), "object_removed", o)

DriverRemoved ==
  \E d \in Drivers :
    /\ Running
    /\ Install(handle_driver_removed(Cur(FALSE, FALSE), d), "driver_removed", d)

FetchTimer ==
  \E conn \in BOOLEAN :
    /\ Running
    /\ Install(fetch_object_timeout_handler(Cur(conn, FALSE)), "fetch_timer", 0)

(* The heartbeat asks for the scheduler's load. *)
SchedulerInfo ==
  /\ Running
  /\ Install(provide_scheduler_info(Cur(FALSE, FALSE)).algorithm_state,
             "scheduler_info", 0)

(* A spawned worker process registers: its pid leaves child_pids. *)
RegisterWorker ==
  /\ Running /\ child_pids > 0
  /\ Install([Cur(FALSE, FALSE) EXCEPT !.child_pids = @ - 1],
             "register_worker", 0)

(* The worker asks for a task: its task in progress, if any, is finished. *)
WorkerAvailable ==
  \E w \in Workers :
    /\ Running
    /\ Install(handle_worker_available(finish_task(Cur(FALSE, FALSE), w), w),
               "worker_available", w)

(* The worker gives its resources back before it blocks. *)
WorkerBlocked ==
  \E w \in Workers :
    /\ Running
    /\ Install(handle_worker_blocked(release_resources(Cur(FALSE, FALSE), w), w),
               "worker_blocked", w)

WorkerUnblocked ==
  \E w \in Workers :
    /\ Running
    /\ Install(handle_worker_unblocked(acquire_resources(Cur(FALSE, FALSE), w), w),
               "worker_unblocked", w)

(* The worker process is killed: an executing worker's resources return. *)
WorkerRemoved ==
  \E w \in Workers :
    /\ Running
    /\ LET s == Cur(FALSE, FALSE)
           s1 == IF worker_in_vector(s.executing_workers, w)
                 THEN release_resources(s, w) ELSE s
       IN Install(handle_worker_removed(
                    [s1 EXCEPT !.task_in_progress[w] = NoTask], w),
                  "worker_removed", w)

Next ==
  \/ TaskSubmitted
  \/ TaskScheduled
  \/ ObjectAvailable
  \/ ObjectRemoved
  \/ DriverRemoved
  \/ FetchTimer
  \/ SchedulerInfo
  \/ RegisterWorker
  \/ WorkerAvailable
  \/ WorkerBlocked
  \/ WorkerUnblocked
  \/ WorkerRemoved

Spec == Init /\ [][Next]_vars

(* ------------------------- without a task table ------------------------ *)
(* A local scheduler started without a database connection, hence without  *)
(* a global scheduler.                                                     *)
InitLocal ==
  /\ waiting_task_queue = << >>
  /\ dispatch_task_queue = << >>
  /\ local_objects = EmptyMap
  /\ remote_objects = EmptyMap
  /\ available_workers = << >>
  /\ executing_workers = << >>
  /\ blocked_workers = << >>
  /\ local_actor_infos = EmptyMap
  /\ cached_submitted_actor_tasks = << >>
  /\ dynamic_resources = static_resources
  /\ child_pids = 0
  /\ task_in_progress = [w \in Workers |-> NoTask]
  /\ actor_mapping = EmptyMap
  /\ config = [db |-> FALSE, global_scheduler_exists |-> FALSE]
  /\ actor_log = EmptyMap
  /\ process_state = "running"
  /\ last = [ev |-> "init", arg |-> 0, out |-> NoOutput]

(* The regular part of the scheduler in both configurations. *)
SpecConfig == (Init \/ InitLocal) /\ [][Next]_vars

(* ------------------------------ progress ------------------------------ *)
(* A worker process that dispatch_tasks asked for registers and asks for   *)
(* its first task.                                                         *)
SpawnedWorkerReports ==
  \E w \in Workers :
    /\ Running /\ child_pids > 0
    /\ ~worker_in_vector(available_workers, w)
    /\ ~worker_in_vector(executing_workers, w)
    /\ ~worker_in_vector(blocked_workers, w)
    /\ task_in_progress[w] = NoTask
    /\ Install(handle_worker_available(
                 [Cur(FALSE, FALSE) EXCEPT !.child_pids = @ - 1], w),
               "worker_available", w)

(* An executing worker finishes its task and asks for the next one. *)
ExecutingWorkerReports(w) ==
  /\ Running
  /\ worker_in_vector(executing_workers, w)
  /\ Install(handle_worker_available(finish_task(Cur(FALSE, FALSE), w), w),
             "worker_available", w)

(* A blocked worker gets the object it waits for and resumes its task. *)
BlockedWorkerResumes(w) ==
  /\ Running
  /\ worker_in_vector(blocked_workers, w)
  /\ Install(handle_worker_unblocked(acquire_resources(Cur(FALSE, FALSE), w), w),
             "worker_unblocked", w)

(* The tasks and the object of the progress specification: a task with one *)
(* by-reference argument and a task that needs every CPU of the node.      *)
LiveTasks == {t \in Tasks : Shape(t) \in {1, 4}}

LiveObjects == {Obj(1)}

LiveTaskScheduled ==
  \E t \in LiveTasks :
    /\ Running /\ ~Queued(t)
    /\ Install(handle_task_scheduled(Cur(FALSE, FALSE), t), "task_scheduled", t)

LiveObjectAvailable ==
  \E o \in LiveObjects :
    /\ Running
    /\ Install(handle_object_available(Cur(FALSE, FALSE), o),
               "object_available", o)

LiveObjectRemoved ==
  \E o \in LiveObjects :
    /\ Running
    /\ Install(handle_object_removed(Cur(FALSE, FALSE), o), "object_removed", o)

(* The events that queue tasks, free or take resources, or move workers;   *)
(* the fetch timer and the load report leave all of these alone.           *)
NextLive ==
  \/ LiveTaskScheduled
  \/ LiveObjectAvailable
  \/ LiveObjectRemoved
  \/ DriverRemoved
  \/ SpawnedWorkerReports
  \/ WorkerAvailable
  \/ WorkerBlocked
  \/ WorkerUnblocked
  \/ WorkerRemoved

(* Requested workers arrive, and a worker that has a task finishes it: a   *)
(* blocked worker resumes, an executing worker reports for its next task.  *)
Fairness ==
  /\ WF_vars(SpawnedWorkerReports)
  /\ \A w \in Workers : WF_vars(ExecutingWorkerReports(w))
  /\ \A w \in Workers : WF_vars(BlockedWorkerResumes(w))

(* The regular part of the scheduler with workers that make progress. *)
SpecLive == Init /\ [][NextLive]_vars /\ Fairness

(* What keeps the actor part of the state finite. *)
ActorBounded(s) ==
  /\ Len(s.cached_submitted_actor_tasks) <= MaxCached
  /\ \A a \in DOMAIN s.local_actor_infos :
       Len(s.local_actor_infos[a].task_queue) <= MaxActorQueue

ActorTaskSubmitted ==
  \E spec \in ActorTasks :
    LET s == handle_actor_task_submitted(Cur(FALSE, FALSE), spec)
    IN /\ Running /\ ActorBounded(s)
       /\ Install(s, "actor_task_submitted", spec)

ActorTaskScheduled ==
  \E spec \in ActorTasks :
    LET s == handle_actor_task_scheduled(Cur(FALSE, FALSE), spec)
    IN /\ Running /\ ActorBounded(s)
       /\ Install(s, "actor_task_scheduled", spec)

(* The actor table announces where the actor lives; the mapping is         *)
(* recorded before the scheduling algorithm is told.                       *)
ActorCreationNotification ==
  \E a \in Actors, location \in {"self", "other"} :
    LET s0 == Cur(FALSE, FALSE)
        s1 == IF a \in DOMAIN s0.actor_mapping THEN s0
              ELSE [s0 EXCEPT !.actor_mapping = (a :> location) @@ @]
        s == handle_actor_creation_notification(s1, a)
    IN /\ Running /\ ActorBounded(s)
       /\ Install(s, "actor_creation_notification", a)

ActorWorkerConnect ==
  \E a \in Actors :
    /\ Running
    /\ Install(handle_actor_worker_connect(Cur(FALSE, FALSE), a, a),
               "actor_worker_connect", a)

ActorWorkerAvailable ==
  \E a \in Actors :
    /\ Running
    /\ Install(handle_actor_worker_available(Cur(FALSE, FALSE), a),
               "actor_worker_available", a)

ActorWorkerDisconnect ==
  \E a \in Actors :
    /\ Running
    /\ Install(handle_actor_worker_disconnect(Cur(FALSE, FALSE), a),
               "actor_worker_disconnect", a)

NextActor ==
  \/ ActorTaskSubmitted
  \/ ActorTaskScheduled
  \/ ActorCreationNotification
  \/ ActorWorkerConnect
  \/ ActorWorkerAvailable
  \/ ActorWorkerDisconnect

(* The actor subsystem under every interleaving of the actor events. *)
SpecActor == Init /\ [][NextActor]_vars

(* =============================== claims ================================ *)
Alive == process_state # "aborted"

(* C1: during the lifetime of one LocalActorInfo the counters of the tasks *)
(* handed to the actor's worker are exactly 0, 1, 2, ... in this order.    *)
C1_ActorOrder ==
  \A a \in DOMAIN actor_log :
    \A i \in DOMAIN actor_log[a] : actor_log[a][i] = i - 1

(* Counter 0 and then counter 1 were handed to an actor's worker; the task *)
(* with counter 1 is the one this handler assigned.                        *)
C1_Witness ==
  \E a \in DOMAIN actor_log :
    /\ actor_log[a] = << 0, 1 >>
    /\ last.out.actor_assigned # << >>

(* C2: after every handler, every by-reference argument of every task in   *)
(* the dispatch queue is a key of local_objects.                           *)
C2_DispatchArgsLocal ==
  Alive =>
    \A i \in DOMAIN dispatch_task_queue :
      \A j \in DOMAIN TaskSpec_args(dispatch_task_queue[i]) :
        TaskSpec_args(dispatch_task_queue[i])[j] \in DOMAIN local_objects

(* An object was removed: a task that needs it went back to waiting while  *)
(* a task with other by-reference arguments stays in dispatch.             *)
C2_Witness ==
  /\ last.ev = "object_removed"
  /\ process_state = "running"
  /\ \E t \in Range(dispatch_task_queue) : TaskSpec_args(t) # << >>
  /\ \E u \in Range(waiting_task_queue) : TaskSpec_is_dependent_on(u, last.arg)

(* C3: after every handler, every task in the waiting queue has a          *)
(* by-reference argument that is not local, is a key of remote_objects and *)
(* whose entry holds a cursor to the task.                                 *)
C3_WaitingHasMissing ==
  Alive =>
    \A i \in DOMAIN waiting_task_queue :
      LET t == waiting_task_queue[i]
      IN \E j \in DOMAIN TaskSpec_args(t) :
           LET o == TaskSpec_args(t)[j]
           IN /\ o \notin DOMAIN local_objects
              /\ o \in DOMAIN remote_objects
              /\ t \in Range(remote_objects[o])

(* Two tasks wait, one of them with one argument local and one missing. *)
C3_Witness ==
  /\ process_state = "running"
  /\ Len(waiting_task_queue) >= 2
  /\ \E t \in Range(waiting_task_queue) :
       \E j \in DOMAIN TaskSpec_args(t) :
         TaskSpec_args(t)[j] \in DOMAIN local_objects

(* C4: after every handler no object id is a key of both local_objects and *)
(* remote_objects.                                                         *)
C4_ObjectTablesDisjoint ==
  Alive => DOMAIN local_objects \cap DOMAIN remote_objects = {}

(* An object that tasks wait for became local while another is still being *)
(* fetched.                                                                *)
C4_Witness ==
  /\ last.ev = "object_available"
  /\ process_state = "running"
  /\ last.arg \in DOMAIN local_objects
  /\ local_objects[last.arg] # << >>
  /\ DOMAIN remote_objects # {}

(* C5: after every handler available_workers, executing_workers and        *)
(* blocked_workers are pairwise disjoint and none holds a worker twice.    *)
NoDuplicates(q) == \A i, j \in DOMAIN q : q[i] = q[j] => i = j

C5_WorkerVectorsDisjoint ==
  Alive =>
    /\ NoDuplicates(available_workers \o executing_workers \o blocked_workers)

(* One worker is blocked while another one executes a task that the        *)
(* dispatch pass of worker_blocked gave it.                                *)
C5_Witness ==
  /\ last.ev = "worker_blocked"
  /\ Len(blocked_workers) = 1
  /\ Len(executing_workers) = 1
  /\ last.out.assigned # << >>

(* C6: after every handler every per-actor queue is sorted strictly        *)
(* ascending by actor_counter and holds no counter below task_counter.     *)
C6_ActorQueueSorted ==
  Alive =>
    \A a \in DOMAIN local_actor_infos :
      LET q == local_actor_infos[a].task_queue
      IN /\ \A i, j \in DOMAIN q :
              i < j => TaskSpec_actor_counter(q[i]) < TaskSpec_actor_counter(q[j])
         /\ \A i \in DOMAIN q :
              TaskSpec_actor_counter(q[i]) >= local_actor_infos[a].task_counter

(* C7: after every handler every entry of remote_objects has dependents,   *)
(* and each of its cursors points to an entry of the waiting queue whose   *)
(* task has the object as a by-reference argument.                         *)
C7_CursorsValid ==
  Alive =>
    \A o \in DOMAIN remote_objects :
      /\ remote_objects[o] # << >>
      /\ \A j \in DOMAIN remote_objects[o] :
           /\ remote_objects[o][j] \in Range(waiting_task_queue)
           /\ TaskSpec_is_dependent_on(remote_objects[o][j], o)

(* A driver was removed and the tasks of another driver still wait. *)
C7_Witness ==
  /\ last.ev = "driver_removed"
  /\ waiting_task_queue # << >>
  /\ \E o \in DOMAIN remote_objects : Len(remote_objects[o]) >= 2

(* C8: every assignment of dispatch_tasks is made with available_workers   *)
(* non-empty and required_resources <= dynamic_resources componentwise, so *)
(* the debit leaves no dynamic resource below zero.                        *)
C8_AssignOnlyWhenFits ==
  \A i \in DOMAIN last.out.assigned :
    LET a == last.out.assigned[i]
    IN /\ a.available # << >>
       /\ a.worker = Back(a.available)
       /\ \A k \in Resources :
            /\ TaskSpec_get_required_resource(a.task)[k] <= a.dynamic[k]
            /\ a.dynamic[k] - TaskSpec_get_required_resource(a.task)[k] >= 0

(* One pass assigned two tasks and used up a resource. *)
C8_Witness ==
  /\ Len(last.out.assigned) = 2
  /\ \E k \in Resources : dynamic_resources[k] = 0 /\ static_resources[k] > 0

(* C9: in one dispatch_tasks pass a task that does not fit stays where it  *)
(* is and does not end the pass; every task that fits at its turn, while a *)
(* worker is available and some dynamic resource is positive, is assigned; *)
(* the tasks left in dispatch keep their relative order.  Stated for the   *)
(* handlers whose pass starts from the dispatch queue of the state before  *)
(* (plus the task the handler queued).                                     *)
RECURSIVE SumRequired(_, _)
SumRequired(S, k) ==
  IF S = {} THEN 0
  ELSE LET t == CHOOSE x \in S : TRUE
       IN TaskSpec_get_required_resource(t)[k] + SumRequired(S \ {t}, k)

Fits(t, dyn) ==
  \A k \in Resources : TaskSpec_get_required_resource(t)[k] <= dyn[k]

C9_Pass ==
  LET A == last'.out.assigned
      AT == {A[i].task : i \in DOMAIN A}
      Q0 == IF /\ last'.ev \in {"task_submitted", "task_scheduled"}
               /\ \/ last'.arg \in Range(dispatch_task_queue')
                  \/ last'.arg \in AT
            THEN Append(dispatch_task_queue, last'.arg)
            ELSE dispatch_task_queue
      avail0 == Len(available_workers') + Len(A)
      Before(i) == {Q0[j] : j \in 1 .. (i - 1)} \cap AT
      Dyn(i) == [k \in Resources |->
                   dynamic_resources'[k] + SumRequired(AT \ Before(i), k)]
      Left(t) == t \notin AT
  IN (/\ last'.ev \in {"task_submitted", "task_scheduled",
                       "worker_available", "worker_blocked"}
      /\ process_state' = "running")
     => /\ \A i \in DOMAIN Q0 :
             /\ ~Fits(Q0[i], Dyn(i)) => Q0[i] \notin AT
             /\ (/\ avail0 - Cardinality(Before(i)) > 0
                 /\ \E k \in Resources : Dyn(i)[k] > 0
                 /\ Fits(Q0[i], Dyn(i)))
                => Q0[i] \in AT
        /\ dispatch_task_queue' = SelectSeq(Q0, Left)

C9_SkipMisfit == [][C9_Pass]_vars

(* The task just submitted was assigned although tasks queued ahead of it  *)
(* were skipped and are still in dispatch.                                 *)
C9_Witness ==
  /\ last.ev = "task_submitted"
  /\ \E i \in DOMAIN last.out.assigned : last.out.assigned[i].task = last.arg
  /\ dispatch_task_queue # << >>

(* C10: object_removed(O) immediately followed by object_available(O).     *)
RoundTrip(o, conn, stale) ==
  handle_object_available(
    [handle_object_removed(Cur(conn, FALSE), o)
       EXCEPT !.out = NoOutput, !.stale_read = stale],
    o)

AlgorithmState(s) ==
  << s.waiting_task_queue, s.dispatch_task_queue, s.local_objects,
     s.remote_objects, s.available_workers, s.executing_workers,
     s.blocked_workers, s.local_actor_infos, s.cached_submitted_actor_tasks >>

(* C11: in every reachable state and for every driver D a second           *)
(* handle_driver_removed(D) right after the first changes nothing and does *)
(* not abort.                                                              *)
C11_DriverRemovedIdempotent ==
  Running =>
    \A d \in Drivers :
      LET once == handle_driver_removed(Cur(FALSE, FALSE), d)
          twice == handle_driver_removed([once EXCEPT !.out = NoOutput], d)
      IN /\ ~once.aborted /\ ~once.undefined
         /\ ~twice.aborted /\ ~twice.undefined
         /\ AlgorithmState(twice) = AlgorithmState(once)
         /\ twice.dynamic_resources = once.dynamic_resources
         /\ twice.out = NoOutput

(* A driver has tasks in both queues and cursors in remote_objects. *)
C11_Witness ==
  /\ Running
  /\ \E d \in Drivers :
       LET once == handle_driver_removed(Cur(FALSE, FALSE), d)
       IN /\ Len(once.dispatch_task_queue) < Len(dispatch_task_queue)
          /\ Len(once.waiting_task_queue) < Len(waiting_task_queue)
          /\ once.remote_objects # remote_objects

ActorQueue(infos, a) ==
  IF a \in DOMAIN infos THEN infos[a].task_queue ELSE << >>

(* C13: a creation notification that returns replays each of the N tasks   *)
(* cached at entry exactly once, in index order: the tasks whose actor is  *)
(* mapped are routed (one task table write each, in order, and each ends   *)
(* in its actor's queue or on its worker), and cached_submitted_actor_tasks *)
(* is afterwards exactly the tasks whose actor is still unmapped, in their *)
(* previous order.                                                         *)
C13_Replay ==
  LET C == cached_submitted_actor_tasks
      Unmapped(spec) == spec.actor_id \notin DOMAIN actor_mapping'
      Mapped(spec) == spec.actor_id \in DOMAIN actor_mapping'
      routed == SelectSeq(C, Mapped)
      W == last'.out.task_table
  IN (/\ last'.ev = "actor_creation_notification"
      /\ process_state' = "running")
     => /\ cached_submitted_actor_tasks' = SelectSeq(C, Unmapped)
        /\ Len(W) = Len(routed)
        /\ \A i \in DOMAIN W : W[i].task = routed[i]
        /\ \A a \in Actors :
             LET Mine(spec) == /\ spec.actor_id = a
                               /\ a \in DOMAIN actor_mapping'
                               /\ actor_mapping'[a] = "self"
                 Given(x) == x.actor_id = a
                 given == SelectSeq(last'.out.actor_assigned, Given)
             IN /\ Len(ActorQueue(local_actor_infos', a)) + Len(given)
                     = Len(ActorQueue(local_actor_infos, a))
                         + Len(SelectSeq(C, Mine))
                /\ \A i \in DOMAIN C :
                     Mine(C[i]) =>
                       \/ C[i] \in Range(ActorQueue(local_actor_infos', a))
                       \/ \E j \in DOMAIN given :
                            given[j].actor_counter = C[i].actor_counter

C13_ReplayOnce == [][C13_Replay]_vars

(* A notification replayed cached tasks of two actors: one was routed, the *)
(* other is cached again.                                                  *)
C13_Witness ==
  /\ last.ev = "actor_creation_notification"
  /\ process_state = "running"
  /\ last.out.task_table # << >>
  /\ cached_submitted_actor_tasks # << >>

(* C14: a notification for an actor that is already known returns and      *)
(* leaves the per-actor queues, the task counters and the cached list as   *)
(* they are, and routes nothing: no task table write, no assignment.       *)
C14_NotificationIdempotent ==
  Running =>
    \A a \in DOMAIN actor_mapping :
      LET r == handle_actor_creation_notification(Cur(FALSE, FALSE), a)
      IN /\ ~r.aborted
         /\ r.local_actor_infos = local_actor_infos
         /\ r.cached_submitted_actor_tasks = cached_submitted_actor_tasks
         /\ r.out = NoOutput

(* The actor of the last notification is known here, its queue holds a     *)
(* task and tasks of the other actor are cached: a second notification     *)
(* would have tasks to replay.                                             *)
C14_Witness ==
  /\ last.ev = "actor_creation_notification"
  /\ process_state = "running"
  /\ last.arg \in DOMAIN actor_mapping
  /\ actor_mapping[last.arg] = "self"
  /\ ActorQueue(local_actor_infos, last.arg) # << >>
  /\ cached_submitted_actor_tasks # << >>

(* C15: after object_removed(O) of a local O: O is not local; the tasks    *)
(* that were in dispatch with O as an argument are at the tail of waiting  *)
(* in their previous order and dispatch holds the others, in order; every  *)
(* waiting task with O as an argument has a cursor in remote_objects[O];   *)
(* O is a key of remote_objects iff a queued task references O.            *)
C15_ObjectRemovedEffect ==
  Running =>
    \A o \in DOMAIN local_objects, conn \in BOOLEAN :
      LET r == handle_object_removed(Cur(conn, FALSE), o)
          Dependent(t) == TaskSpec_is_dependent_on(t, o)
          Independent(t) == ~TaskSpec_is_dependent_on(t, o)
      IN /\ ~r.aborted
         /\ o \notin DOMAIN r.local_objects
         /\ r.waiting_task_queue =
              waiting_task_queue \o SelectSeq(dispatch_task_queue, Dependent)
         /\ r.dispatch_task_queue = SelectSeq(dispatch_task_queue, Independent)
         /\ \A t \in Range(r.waiting_task_queue) :
              Dependent(t) =>
                /\ o \in DOMAIN r.remote_objects
                /\ t \in Range(r.remote_objects[o])
         /\ o \in DOMAIN r.remote_objects
              <=> \E t \in Range(r.waiting_task_queue)
                          \cup Range(r.dispatch_task_queue) : Dependent(t)

(* An object was removed while tasks that need it and tasks that do not    *)
(* were in dispatch, behind a task already waiting.                        *)
C15_Witness ==
  /\ last.ev = "object_removed"
  /\ process_state = "running"
  /\ dispatch_task_queue # << >>
  /\ Len(waiting_task_queue) >= 2
  /\ last.arg \in DOMAIN remote_objects
  /\ Len(remote_objects[last.arg]) >= 2
  /\ ~TaskSpec_is_dependent_on(waiting_task_queue[1], last.arg)

(* The elements of q, each at its first occurrence. *)
RECURSIVE FirstOccurrences(_)
FirstOccurrences(q) ==
  IF q = << >> THEN << >>
  ELSE LET init == FirstOccurrences(PopBack(q))
       IN IF Back(q) \in Range(init) THEN init ELSE Append(init, Back(q))

(* C16: object_available(O) of an O that is not local returns with O moved *)
(* from remote_objects to local_objects; the dependents registered for O   *)
(* whose arguments are now all local have left waiting and were appended   *)
(* to dispatch in registration order (from where the dispatch pass of the  *)
(* handler may assign tasks); all other tasks keep their place in waiting. *)
C16_ObjectAvailableMoves ==
  Running =>
    \A o \in Objects \ DOMAIN local_objects, stale \in BOOLEAN :
      LET r == handle_object_available(Cur(FALSE, stale), o)
          entry == IF o \in DOMAIN remote_objects
                   THEN remote_objects[o] ELSE << >>
          Ready(t) == \A i \in DOMAIN TaskSpec_args(t) :
                        TaskSpec_args(t)[i] \in DOMAIN local_objects \cup {o}
          moved == SelectSeq(FirstOccurrences(entry), Ready)
          Stays(t) == t \notin Range(moved)
          AT == {r.out.assigned[i].task : i \in DOMAIN r.out.assigned}
          Left(t) == t \notin AT
      IN /\ ~r.aborted
         /\ DOMAIN r.local_objects = DOMAIN local_objects \cup {o}
         /\ r.remote_objects =
              Restrict(remote_objects, DOMAIN remote_objects \ {o})
         /\ r.waiting_task_queue = SelectSeq(waiting_task_queue, Stays)
         /\ r.dispatch_task_queue =
              SelectSeq(dispatch_task_queue \o moved, Left)

(* C17 as claimed: actor_task_scheduled for an actor without an            *)
(* actor_mapping entry returns, and the task is then in the actor's queue. *)
C17_ScheduledBeforeNotification ==
  Running =>
    \A spec \in ActorTasks :
      spec.actor_id \notin DOMAIN actor_mapping =>
        LET r == handle_actor_task_scheduled(Cur(FALSE, FALSE), spec)
        IN /\ ~r.aborted
           /\ spec \in Range(ActorQueue(r.local_actor_infos, spec.actor_id))

(* C18: handle_actor_task_submitted has one destination per task.  Actor   *)
(* unmapped: the task is appended to cached_submitted_actor_tasks and      *)
(* nothing else changes.  Mapped to this node: the task is inserted in the *)
(* actor's queue (one QUEUED write) and a dispatch is attempted, which     *)
(* assigns the head iff its counter is task_counter and the worker is      *)
(* available; the handler aborts only on a counter below task_counter.     *)
(* Mapped elsewhere: one SCHEDULED write for the mapped node, nothing      *)
(* queued or cached.                                                       *)
C18_ActorTaskRouting ==
  Running =>
    \A spec \in ActorTasks :
      LET a == spec.actor_id
          s == Cur(FALSE, FALSE)
          r == handle_actor_task_submitted(s, spec)
          q == ActorQueue(local_actor_infos, a)
          tc == IF a \in DOMAIN local_actor_infos
                THEN local_actor_infos[a].task_counter ELSE 0
          free == /\ a \in DOMAIN local_actor_infos
                  /\ local_actor_infos[a].worker_available
          headc == IF q # << >> /\ q[1].actor_counter < spec.actor_counter
                   THEN q[1].actor_counter ELSE spec.actor_counter
      IN IF a \notin DOMAIN actor_mapping
         THEN r = [s EXCEPT !.cached_submitted_actor_tasks = Append(@, spec)]
         ELSE IF actor_mapping[a] = "self"
         THEN /\ r.aborted <=> (spec.actor_counter < tc \/ headc < tc)
              /\ ~r.aborted =>
                   /\ r.cached_submitted_actor_tasks = cached_submitted_actor_tasks
                   /\ r.out.task_table =
                        << [op |-> "add", task |-> spec, status |-> "QUEUED",
                            owner |-> "self"] >>
                   /\ Len(ActorQueue(r.local_actor_infos, a))
                        + Len(r.out.actor_assigned) = Len(q) + 1
                   /\ \/ spec \in Range(ActorQueue(r.local_actor_infos, a))
                      \/ /\ r.out.actor_assigned # << >>
                         /\ r.out.actor_assigned[1].actor_counter
                              = spec.actor_counter
                   /\ r.out.actor_assigned # << >> <=> (headc = tc /\ free)
                   /\ \A b \in DOMAIN local_actor_infos \ {a} :
                        r.local_actor_infos[b] = local_actor_infos[b]
         ELSE /\ ~r.aborted
              /\ r.out.task_table =
                   << [op |-> "add", task |-> spec, status |-> "SCHEDULED",
                       owner |-> actor_mapping[a]] >>
              /\ r.out.actor_assigned = << >>
              /\ r.local_actor_infos = local_actor_infos
              /\ r.cached_submitted_actor_tasks = cached_submitted_actor_tasks

(* A task was forwarded to the node its actor is mapped to, while tasks of *)
(* an unmapped actor are cached and the local queues are untouched.        *)
C18_Witness ==
  /\ last.ev = "actor_task_submitted"
  /\ process_state = "running"
  /\ last.out.task_table # << >>
  /\ last.out.task_table[1].status = "SCHEDULED"
  /\ cached_submitted_actor_tasks # << >>

(* C19: a fetch timer tick leaves the state as it is.  Connected, it emits *)
(* one batched fetch whose ids are the keys of remote_objects, each once,  *)
(* and one reconstruct request per id, so no local object is requested;    *)
(* disconnected, it emits nothing.                                         *)
C19_FetchTimer ==
  Running =>
    \A conn \in BOOLEAN :
      LET s == Cur(conn, FALSE)
          r == fetch_object_timeout_handler(s)
          n == Cardinality(DOMAIN remote_objects)
      IN /\ [r EXCEPT !.out = NoOutput] = s
         /\ IF conn
            THEN /\ Len(r.out.fetches) = 1
                 /\ Len(r.out.fetches[1]) = n
                 /\ Range(r.out.fetches[1]) = DOMAIN remote_objects
                 /\ Len(r.out.reconstructs) = n
                 /\ Range(r.out.reconstructs) = DOMAIN remote_objects
                 /\ Range(r.out.fetches[1]) \cap DOMAIN local_objects = {}
                 /\ [r.out EXCEPT !.fetches = << >>, !.reconstructs = << >>]
                      = NoOutput
            ELSE r.out = NoOutput

(* A connected tick requested the one object still being fetched, not the  *)
(* object that had become local.                                           *)
C19_Witness ==
  /\ last.ev = "fetch_timer"
  /\ process_state = "running"
  /\ last.out.fetches # << >>
  /\ Len(last.out.fetches[1]) = 1
  /\ local_objects # EmptyMap
  /\ waiting_task_queue # << >>

(* C20: fetch_missing_dependency(T, O) emits one immediate fetch of O iff  *)
(* O is not a key of remote_objects and the object store is connected, and *)
(* in every case appends one cursor to T in remote_objects[O]; within one  *)
(* handler no object is fetched immediately twice.                         *)
C20_ImmediateFetch ==
  Running =>
    /\ \A t \in Tasks, o \in Objects, conn \in BOOLEAN :
         LET r == fetch_missing_dependency(Cur(conn, FALSE), t, o)
             old == IF o \in DOMAIN remote_objects
                    THEN remote_objects[o] ELSE << >>
         IN /\ r.out.fetches = IF o \notin DOMAIN remote_objects /\ conn
                               THEN << << o >> >> ELSE << >>
            /\ DOMAIN r.remote_objects = DOMAIN remote_objects \cup {o}
            /\ r.remote_objects[o] = Append(old, t)
            /\ \A p \in DOMAIN remote_objects \ {o} :
                 r.remote_objects[p] = remote_objects[p]
    /\ last.ev \in {"task_submitted", "task_scheduled", "object_removed"} =>
         /\ \A i \in DOMAIN last.out.fetches :
              /\ Len(last.out.fetches[i]) = 1
              /\ last.out.fetches[i][1] \in DOMAIN remote_objects
         /\ \A i, j \in DOMAIN last.out.fetches :
              last.out.fetches[i] = last.out.fetches[j] => i = j

(* A task with two missing objects was queued while connected: one object  *)
(* was fetched at once, the other, already being fetched for an earlier    *)
(* task, only got one more cursor.                                         *)
C20_Witness ==
  /\ last.ev \in {"task_submitted", "task_scheduled"}
  /\ process_state = "running"
  /\ last.arg \in Range(waiting_task_queue)
  /\ Range(TaskSpec_args(last.arg)) = Objects
  /\ DOMAIN remote_objects = Objects
  /\ Len(last.out.fetches) = 1
  /\ \E o \in Objects : Len(remote_objects[o]) >= 2

(* Where a worker is: in one of the three vectors, or in none. *)
Place(available, executing, blocked, w) ==
  IF w \in Range(available) THEN "available"
  ELSE IF w \in Range(executing) THEN "executing"
  ELSE IF w \in Range(blocked) THEN "blocked"
  ELSE "none"

(* C21: in every step that does not abort, a worker that enters executing  *)
(* was assigned a task by dispatch_tasks or comes from blocked through     *)
(* worker_unblocked; it enters blocked only from executing through         *)
(* worker_blocked, available only through worker_available and never from  *)
(* blocked, and leaves the vectors only through worker_removed.            *)
(* worker_blocked of a worker not executing and worker_unblocked of a      *)
(* worker not blocked abort.                                               *)
C21_Step ==
  /\ process_state' # "aborted" =>
       \A w \in Workers :
         LET from == Place(available_workers, executing_workers,
                           blocked_workers, w)
             to == Place(available_workers', executing_workers',
                         blocked_workers', w)
             assigned == \E i \in DOMAIN last'.out.assigned :
                           last'.out.assigned[i].worker = w
             Event(ev) == last'.ev = ev /\ last'.arg = w
         IN /\ (from = "available" /\ to = "executing") => assigned
            /\ (to = "executing" /\ from # "executing") =>
                 \/ assigned /\ (from = "available" \/ Event("worker_available"))
                 \/ from = "blocked" /\ Event("worker_unblocked")
            /\ (to = "blocked" /\ from # "blocked") =>
                 from = "executing" /\ Event("worker_blocked")
            /\ (to = "available" /\ from # "available") =>
                 from \in {"none", "executing"} /\ Event("worker_available")
            /\ (to = "none" /\ from # "none") => Event("worker_removed")
  /\ (/\ last'.ev = "worker_blocked"
      /\ last'.arg \notin Range(executing_workers))
       => process_state' = "aborted"
  /\ (/\ last'.ev = "worker_unblocked"
      /\ last'.arg \notin Range(blocked_workers))
       => process_state' = "aborted"

C21_WorkerLifeCycle == [][C21_Step]_vars

(* A worker came back from blocked to executing while the other worker is  *)
(* available.                                                              *)
C21_Witness ==
  /\ last.ev = "worker_unblocked"
  /\ process_state = "running"
  /\ last.arg \in Range(executing_workers)
  /\ available_workers # << >>

(* C22: handle_worker_removed(w) returns with w in none of the vectors and *)
(* the membership of the other workers as it was; nothing else changes; a  *)
(* second handle_worker_removed(w) changes nothing and does not abort.     *)
C22_WorkerRemoved ==
  Running =>
    \A w \in Workers :
      LET s == Cur(FALSE, FALSE)
          r == handle_worker_removed(s, w)
          again == handle_worker_removed(r, w)
      IN /\ ~r.aborted
         /\ Range(r.available_workers) = Range(available_workers) \ {w}
         /\ Range(r.executing_workers) = Range(executing_workers) \ {w}
         /\ Range(r.blocked_workers) = Range(blocked_workers) \ {w}
         /\ NoDuplicates(r.available_workers)
         /\ NoDuplicates(r.executing_workers)
         /\ NoDuplicates(r.blocked_workers)
         /\ [r EXCEPT !.available_workers = available_workers,
                      !.executing_workers = executing_workers,
                      !.blocked_workers = blocked_workers] = s
         /\ ~again.aborted
         /\ again = r

(* The first of two executing workers can be removed while a task waits in *)
(* dispatch.                                                               *)
C22_Witness ==
  /\ process_state = "running"
  /\ Len(executing_workers) = 2
  /\ handle_worker_removed(Cur(FALSE, FALSE), executing_workers[1]).executing_workers
       = << executing_workers[2] >>
  /\ dispatch_task_queue # << >>

(* C23: handle_object_available of an object that is in local_objects     *)
(* aborts, and handle_object_removed of an object that is not in           *)
(* local_objects aborts.                                                   *)
C23_ObjectTableChecks ==
  Running =>
    \A o \in Objects, conn \in BOOLEAN, stale \in BOOLEAN :
      /\ o \in DOMAIN local_objects
           => handle_object_available(Cur(conn, stale), o).aborted
      /\ o \notin DOMAIN local_objects
           => handle_object_removed(Cur(conn, stale), o).aborted

(* One object is local and the other is not, with tasks queued: a second   *)
(* object_available of the first and an object_removed of the second are   *)
(* the two fatal events.                                                   *)
C23_Witness ==
  /\ process_state = "running"
  /\ \E o \in DOMAIN local_objects, p \in Objects \ DOMAIN local_objects :
       /\ handle_object_available(Cur(FALSE, FALSE), o).aborted
       /\ handle_object_removed(Cur(FALSE, FALSE), p).aborted
  /\ waiting_task_queue # << >>
  /\ dispatch_task_queue # << >>

(* C24: add_task_to_actor_queue aborts exactly when the task's             *)
(* actor_counter is less than the actor's task_counter (0 for an actor     *)
(* without LocalActorInfo); otherwise the task is inserted in the actor's  *)
(* queue, the other entries keeping their order, and the task table is     *)
(* written once.                                                           *)
C24_ActorQueueInsert ==
  Running =>
    \A spec \in ActorTasks, from_global_scheduler \in BOOLEAN :
      LET a == spec.actor_id
          r == add_task_to_actor_queue(Cur(FALSE, FALSE), spec,
                                       from_global_scheduler)
          known == a \in DOMAIN local_actor_infos
          counter == IF known THEN local_actor_infos[a].task_counter ELSE 0
          q == IF known THEN local_actor_infos[a].task_queue ELSE << >>
      IN /\ r.aborted <=> spec.actor_counter < counter
         /\ ~r.aborted =>
              /\ a \in DOMAIN r.local_actor_infos
              /\ LET q2 == r.local_actor_infos[a].task_queue
                 IN \E p \in 1 .. (Len(q) + 1) :
                      q2 = SubSeq(q, 1, p - 1) \o << spec >>
                             \o SubSeq(q, p, Len(q))
              /\ r.local_actor_infos[a].task_counter = counter
              /\ Len(r.out.task_table) = 1
              /\ r.out.task_table[1].task = spec

(* An actor that has run its first task and has a task queued: a task with *)
(* counter 0 is fatal, a task with counter 1 is queued.                    *)
C24_Witness ==
  /\ process_state = "running"
  /\ \E a \in DOMAIN local_actor_infos :
       /\ local_actor_infos[a].task_counter = 1
       /\ local_actor_infos[a].task_queue # << >>
       /\ add_task_to_actor_queue(Cur(FALSE, FALSE),
            [actor_id |-> a, actor_counter |-> 0], FALSE).aborted
       /\ ~add_task_to_actor_queue(Cur(FALSE, FALSE),
            [actor_id |-> a, actor_counter |-> 1], FALSE).aborted

(* A task that asks for more of some resource than the node has. *)
Unfit(t) ==
  \E k \in Resources : TaskSpec_get_required_resource(t)[k] > static_resources[k]

(* The task is handed to a worker in the step. *)
AssignedInStep(t) ==
  \E i \in DOMAIN last'.out.assigned : last'.out.assigned[i].task = t

(* C25 as stated: in every step that does not abort, an unfit task of the  *)
(* dispatch queue is not assigned, and it stays in the dispatch queue      *)
(* unless the step is the removal of its driver.                           *)
C25_Step ==
  \A t \in Tasks :
    (Unfit(t) /\ t \in Range(dispatch_task_queue)
       /\ process_state' # "aborted") =>
      /\ ~AssignedInStep(t)
      /\ \/ t \in Range(dispatch_task_queue')
         \/ last'.ev = "driver_removed" /\ last'.arg = TaskSpec_driver_id(t)

C25_UnfitStaysInDispatch == [][C25_Step]_vars

(* C25 amended: the dispatch pass itself never aborts on an unfit task; in *)
(* every step that does not abort, an unfit task of the dispatch queue is  *)
(* not assigned, and it stays in the dispatch queue unless the step is the *)
(* removal of its driver, which deletes it, or the removal of one of its   *)
(* arguments, which moves it back to the waiting queue.                    *)
C25_StepAmended ==
  /\ (Running /\ \E t \in Range(dispatch_task_queue) : Unfit(t))
       => ~dispatch_tasks(Cur(FALSE, FALSE)).aborted
  /\ \A t \in Tasks :
       (Unfit(t) /\ t \in Range(dispatch_task_queue)
          /\ process_state' # "aborted") =>
         /\ ~AssignedInStep(t)
         /\ \/ t \in Range(dispatch_task_queue')
            \/ /\ last'.ev = "driver_removed"
               /\ last'.arg = TaskSpec_driver_id(t)
               /\ t \notin Range(waiting_task_queue')
            \/ /\ last'.ev = "object_removed"
               /\ TaskSpec_is_dependent_on(t, last'.arg)
               /\ t \in Range(waiting_task_queue')

C25_UnfitLeavesDispatch == [][C25_StepAmended]_vars

(* A worker became available with all resources free, the dispatch pass    *)
(* ran, and an unfit task is still in the dispatch queue with the worker   *)
(* idle.                                                                   *)
C25_Witness ==
  /\ process_state = "running"
  /\ last.ev = "worker_available"
  /\ last.arg \in Range(available_workers)
  /\ dynamic_resources = static_resources
  /\ \E t \in Range(dispatch_task_queue) : Unfit(t)

(* C26: in every reachable state provide_scheduler_info reports            *)
(* task_queue_length = |waiting| + |dispatch| and available_workers =      *)
(* |available_workers|, copies dynamic_resources and static_resources, and *)
(* leaves the state as it was.                                             *)
C26_SchedulerInfo ==
  Running =>
    \A conn \in BOOLEAN :
      LET s == Cur(conn, FALSE)
          r == provide_scheduler_info(s)
      IN /\ r.info.task_queue_length
              = Len(waiting_task_queue) + Len(dispatch_task_queue)
         /\ r.info.available_workers = Len(available_workers)
         /\ r.info.dynamic_resources = dynamic_resources
         /\ r.info.static_resources = static_resources
         /\ r.algorithm_state = s

(* The info was asked for with tasks in both queues, an idle worker and    *)
(* part of the resources in use.                                           *)
C26_Witness ==
  /\ process_state = "running"
  /\ last.ev = "scheduler_info"
  /\ waiting_task_queue # << >>
  /\ dispatch_task_queue # << >>
  /\ available_workers # << >>
  /\ dynamic_resources # static_resources

(* C27 as claimed: handle_object_available dereferences no cursor whose    *)
(* waiting entry is gone and moves a task at most once, whatever the shape *)
(* of the task; no task is twice in the dispatch queue or in both queues,  *)
(* and no task is handed to two workers.                                   *)
C27_MovedOnce ==
  /\ process_state # "undefined"
  /\ NoDuplicates(dispatch_task_queue)
  /\ Range(waiting_task_queue) \cap Range(dispatch_task_queue) = {}
  /\ \A w1, w2 \in Workers :
       (w1 # w2 /\ task_in_progress[w1] # NoTask)
         => task_in_progress[w1] # task_in_progress[w2]
  /\ Running =>
       \A o \in Objects \ DOMAIN local_objects, stale \in BOOLEAN :
         LET r == handle_object_available(Cur(FALSE, stale), o)
         IN /\ ~r.aborted
            /\ ~r.undefined
            /\ NoDuplicates(r.dispatch_task_queue)
            /\ \A i, j \in DOMAIN r.out.assigned :
                 i # j => r.out.assigned[i].task # r.out.assigned[j].task

(* C28: after every handler, every by-reference argument of a waiting task *)
(* that is not local is a key of remote_objects whose entry holds a cursor *)
(* to the task, and every waiting task has such an argument: no task waits *)
(* with all of its by-reference arguments local.                           *)
C28_WaitingRegistered ==
  Alive =>
    \A t \in Range(waiting_task_queue) :
      /\ \A j \in DOMAIN TaskSpec_args(t) :
           TaskSpec_args(t)[j] \notin DOMAIN local_objects =>
             /\ TaskSpec_args(t)[j] \in DOMAIN remote_objects
             /\ t \in Range(remote_objects[TaskSpec_args(t)[j]])
      /\ ~can_run(Cur(FALSE, FALSE), t)

(* An argument of a task that already waited for another argument was      *)
(* removed: the task waits for two objects and is registered with both.    *)
C28_Witness ==
  /\ process_state = "running"
  /\ last.ev = "object_removed"
  /\ \E t \in Range(waiting_task_queue) :
       /\ TaskSpec_is_dependent_on(t, last.arg)
       /\ \E j \in DOMAIN TaskSpec_args(t) :
            /\ TaskSpec_args(t)[j] # last.arg
            /\ TaskSpec_args(t)[j] \notin DOMAIN local_objects
            /\ t \in Range(remote_objects[TaskSpec_args(t)[j]])
       /\ t \in Range(remote_objects[last.arg])

(* dispatch_actor_task(a) in the current state, for an actor that is       *)
(* mapped to this node and has a LocalActorInfo: `fatal' tells whether it  *)
(* may abort on the head's counter.                                        *)
DispatchActorTaskAsSpecified(a, fatal) ==
  LET s == Cur(FALSE, FALSE)
      r == dispatch_actor_task(s, a)
      entry == local_actor_infos[a]
      queued == entry.task_queue # << >>
      ready == /\ queued
               /\ TaskSpec_actor_counter(Head(entry.task_queue))
                    = entry.task_counter
               /\ entry.worker_available
      behind == /\ queued
                /\ TaskSpec_actor_counter(Head(entry.task_queue))
                     < entry.task_counter
  IN /\ r.aborted <=> (fatal /\ behind)
     /\ ~r.aborted =>
          /\ ready =>
               /\ entry.worker # NULL
               /\ r.out.actor_assigned =
                    << [actor_id |-> a,
                        actor_counter |-> entry.task_counter,
                        worker |-> entry.worker] >>
               /\ r.local_actor_infos =
                    [local_actor_infos EXCEPT
                       ![a] = [entry EXCEPT !.task_counter = @ + 1,
                                            !.worker_available = FALSE,
                                            !.task_queue = Tail(@)]]
          /\ ~ready => r = s

(* The tasks handed to the worker of actor a in the step. *)
HandedInStep(a) ==
  {i \in DOMAIN last'.out.actor_assigned :
     last'.out.actor_assigned[i].actor_id = a}

(* An actor worker gets a task only when it is marked available, at most   *)
(* one per event, and is marked available only by its own                  *)
(* actor_worker_available event.                                           *)
OneTaskPerAvailable ==
  \A a \in Actors :
    LET available == a \in DOMAIN local_actor_infos
                       /\ local_actor_infos[a].worker_available
        available_after == a \in DOMAIN local_actor_infos'
                             /\ local_actor_infos'[a].worker_available
        asked == last'.ev = "actor_worker_available" /\ last'.arg = a
    IN process_state' # "aborted" =>
         /\ HandedInStep(a) # {} =>
              /\ available \/ asked
              /\ Cardinality(HandedInStep(a)) = 1
              /\ ~available_after
         /\ (available_after /\ ~available) => asked

(* C29 as claimed: dispatch_actor_task(a) assigns the head iff the queue   *)
(* is non-empty, the head's counter is task_counter and worker_available   *)
(* is true (the worker is then present); it then adds 1 to task_counter,   *)
(* clears worker_available and removes the head; in every other case it    *)
(* returns and changes nothing.  An actor worker is handed no second task  *)
(* before its next actor_worker_available event.                           *)
C29_Step ==
  /\ Running =>
       \A a \in DOMAIN local_actor_infos :
         (a \in DOMAIN actor_mapping /\ actor_mapping[a] = "self")
           => DispatchActorTaskAsSpecified(a, FALSE)
  /\ OneTaskPerAvailable

C29_StepAmended ==
  /\ Running =>
       \A a \in DOMAIN local_actor_infos :
         (a \in DOMAIN actor_mapping /\ actor_mapping[a] = "self")
           => DispatchActorTaskAsSpecified(a, TRUE)
  /\ OneTaskPerAvailable

Assignable(s) ==
  /\ s.available_workers # << >>
  /\ \E k \in Resources : s.dynamic_resources[k] > 0
  /\ \E i \in DOMAIN s.dispatch_task_queue :
       \A k \in Resources :
         TaskSpec_get_required_resource(s.dispatch_task_queue[i])[k]
           <= s.dynamic_resources[k]

(* C30: whenever dispatch_tasks returns, no task is left assignable: not   *)
(* in the result of a dispatch pass from any reachable state, and not in   *)
(* the state left by a handler that ends with a dispatch pass.             *)
C30_NothingAssignableLeft ==
  /\ Running => ~Assignable(dispatch_tasks(Cur(FALSE, FALSE)))
  /\ (/\ process_state = "running"
      /\ \/ last.ev \in {"task_submitted", "task_scheduled",
                         "worker_available", "worker_blocked"}
         \/ last.out.assigned # << >>)
       => ~Assignable(Cur(FALSE, FALSE))

(* A dispatch pass assigned a task and returned with a worker and a        *)
(* resource left over and a task still in the dispatch queue.              *)
C30_Witness ==
  /\ process_state = "running"
  /\ last.out.assigned # << >>
  /\ dispatch_task_queue # << >>
  /\ available_workers # << >>
  /\ \E k \in Resources : dynamic_resources[k] > 0

(* Task t is in the dispatch queue and asks for no more than the node has. *)
DispatchableTask(t) ==
  /\ process_state = "running"
  /\ t \in Range(dispatch_task_queue)
  /\ ~Unfit(t)

(* The task is in progress on a worker, the process is gone, or one of the *)
(* events the claim excludes has arrived: a submission, the removal of the *)
(* task's driver or of one of its arguments.                               *)
AssignedOrDisturbed(t) ==
  \/ \E w \in Workers : task_in_progress[w] = t
  \/ process_state # "running"
  \/ last.ev \in {"task_submitted", "task_scheduled"}
  \/ last.ev = "driver_removed" /\ last.arg = TaskSpec_driver_id(t)
  \/ last.ev = "object_removed" /\ TaskSpec_is_dependent_on(t, last.arg)

(* C31 as claimed: with workers that make progress (weak fairness on the   *)
(* arrival of requested workers, on worker_available of executing workers  *)
(* and on the resumption of blocked workers), a task of the dispatch queue *)
(* that fits static_resources is eventually assigned, unless a task is     *)
(* submitted, its driver is removed or one of its arguments is removed.    *)
C31_EventuallyAssigned ==
  \A t \in LiveTasks : DispatchableTask(t) ~> AssignedOrDisturbed(t)

(* C32: handle_task_submitted appends the task to the dispatch queue iff   *)
(* its required resources fit static_resources and dynamic_resources, a    *)
(* worker is available and all its by-reference arguments are local.       *)
(* Otherwise, with a task table and a global scheduler, the task is added  *)
(* to the task table with status WAITING and enters neither queue; without *)
(* them it is queued locally, in dispatch if it can run and else at the    *)
(* tail of waiting with its missing arguments registered.  A dispatch pass *)
(* follows in every case.                                                  *)
C32_TaskSubmitted ==
  Running =>
    \A t \in Tasks, conn \in BOOLEAN :
      ~Queued(t) =>
        LET s == Cur(conn, FALSE)
            r == handle_task_submitted(s, t)
            required == TaskSpec_get_required_resource(t)
            direct == /\ \A k \in Resources :
                           /\ required[k] <= static_resources[k]
                           /\ required[k] <= dynamic_resources[k]
                      /\ available_workers # << >>
                      /\ \A j \in DOMAIN TaskSpec_args(t) :
                           TaskSpec_args(t)[j] \in DOMAIN local_objects
            global == config.db /\ config.global_scheduler_exists
            runnable == \A j \in DOMAIN TaskSpec_args(t) :
                          TaskSpec_args(t)[j] \in DOMAIN local_objects
            queued == IF config.db
                      THEN << [op |-> "add", task |-> t, status |-> "QUEUED",
                               owner |-> "self"] >>
                      ELSE << >>
            in_dispatch ==
              [s EXCEPT !.dispatch_task_queue = Append(@, t),
                        !.out.task_table = queued]
        IN /\ ~r.aborted
           /\ ~Assignable(r)
           /\ direct => r = dispatch_tasks(in_dispatch)
           /\ (~direct /\ global) =>
                /\ r.out.task_table =
                     << [op |-> "add", task |-> t, status |-> "WAITING",
                         owner |-> "nil"] >>
                /\ t \notin Range(r.waiting_task_queue)
                /\ t \notin Range(r.dispatch_task_queue)
                /\ \A i \in DOMAIN r.out.assigned : r.out.assigned[i].task # t
                /\ r = dispatch_tasks([s EXCEPT !.out.task_table =
                                                   r.out.task_table])
           /\ (~direct /\ ~global /\ runnable) =>
                r = dispatch_tasks(in_dispatch)
           /\ (~direct /\ ~global /\ ~runnable) =>
                /\ r.waiting_task_queue = Append(waiting_task_queue, t)
                /\ r.out.task_table = queued
                /\ \A j \in DOMAIN TaskSpec_args(t) :
                     TaskSpec_args(t)[j] \notin DOMAIN local_objects =>
                       /\ TaskSpec_args(t)[j] \in DOMAIN r.remote_objects
                       /\ t \in Range(r.remote_objects[TaskSpec_args(t)[j]])
                /\ r.local_objects = local_objects
                /\ t \notin Range(r.dispatch_task_queue)

(* A task that can run was submitted to a scheduler without a task table   *)
(* while a worker idled and the free resources did not fit: it sits in the *)
(* dispatch queue.                                                         *)
C32_Witness ==
  /\ process_state = "running"
  /\ ~config.db
  /\ last.ev = "task_submitted"
  /\ last.arg \in Range(dispatch_task_queue)
  /\ ~Unfit(last.arg)
  /\ available_workers # << >>
  /\ waiting_task_queue # << >>

(* C33 as claimed: after handle_object_available(O) the entry stored under *)
(* local_objects[O] has no dependent tasks, and the dependent tasks of     *)
(* every stored entry, in local_objects and in remote_objects, are tasks   *)
(* of the waiting queue.                                                   *)
C33_StoredDependentsWait ==
  /\ (process_state = "running" /\ last.ev = "object_available")
       => local_objects[last.arg] = << >>
  /\ Alive =>
       /\ \A o \in DOMAIN local_objects :
            Range(local_objects[o]) \subseteq Range(waiting_task_queue)
       /\ \A o \in DOMAIN remote_objects :
            Range(remote_objects[o]) \subseteq Range(waiting_task_queue)

(* The spawn requests of one step: at most one; one only if no worker was  *)
(* pending registration and the pass returned with tasks left in dispatch  *)
(* and no worker available; `idle' adds that a pass that requests a spawn  *)
(* assigned nothing.  A dispatch pass from the current state obeys the     *)
(* same rule.                                                              *)
SpawnRule(idle) ==
  /\ process_state' # "aborted" =>
       /\ last'.out.spawned \in {0, 1}
       /\ last'.out.spawned = 1 =>
            /\ child_pids = 0
            /\ child_pids' = 1
            /\ dispatch_task_queue' # << >>
            /\ available_workers' = << >>
            /\ idle => last'.out.assigned = << >>
       /\ last'.out.spawned = 0 => child_pids' <= child_pids
  /\ Running =>
       LET r == dispatch_tasks(Cur(FALSE, FALSE))
       IN /\ r.out.spawned \in {0, 1}
          /\ r.child_pids = child_pids + r.out.spawned
          /\ r.out.spawned = 1 =>
               /\ child_pids = 0
               /\ r.dispatch_task_queue # << >>
               /\ r.available_workers = << >>
               /\ idle => r.out.assigned = << >>
          /\ (child_pids > 0 \/ dispatch_task_queue = << >>)
               => r.out.spawned = 0

(* C34 as claimed: dispatch_tasks requests a spawn only with tasks in      *)
(* dispatch, no available worker and no worker pending registration; it    *)
(* then requests exactly one and returns without assigning anything; at    *)
(* most one spawn is requested per pass.                                   *)
C34_SpawnOnlyWhenIdle == [][SpawnRule(TRUE)]_vars

(* C34 amended: the pass may have assigned tasks to the workers that were  *)
(* available before it ran out of workers and requested the spawn.         *)
C34_SpawnWhenOutOfWorkers == [][SpawnRule(FALSE)]_vars

(* A worker reported, got the first task of the dispatch queue, and the    *)
(* pass requested a worker for the next task.                              *)
C34_Witness ==
  /\ process_state = "running"
  /\ last.ev = "worker_available"
  /\ last.out.spawned = 1
  /\ last.out.assigned # << >>
  /\ dispatch_task_queue # << >>
  /\ child_pids = 1

(* C35: every assignment of a step goes to the last element of             *)
(* available_workers as it is at that moment; that worker, and no other,   *)
(* moves to the tail of executing_workers and has the task in progress;    *)
(* the assigned task, and no other, leaves the dispatch queue.  With       *)
(* several assignments in one pass the i-th assigned task, in queue order, *)
(* gets the i-th worker from the back of available_workers.                *)
C35_Step ==
  /\ process_state' = "running" =>
       LET A == last'.out.assigned
           n == Len(A)
       IN n > 0 =>
            /\ \A i \in 1 .. n :
                 /\ A[i].available # << >>
                 /\ A[i].worker = Back(A[i].available)
                 /\ A[i].worker
                      = A[1].available[Len(A[1].available) - i + 1]
                 /\ task_in_progress'[A[i].worker] = A[i].task
                 /\ A[i].task \notin Range(dispatch_task_queue')
                 /\ A[i].worker \notin Range(available_workers')
            /\ \A i \in 1 .. (n - 1) :
                 A[i + 1].available = PopBack(A[i].available)
            /\ available_workers' = PopBack(A[n].available)
            /\ Len(executing_workers') >= n
            /\ \A i \in 1 .. n :
                 executing_workers'[Len(executing_workers') - n + i]
                   = A[i].worker
  /\ Running =>
       LET r == dispatch_tasks(Cur(FALSE, FALSE))
           A == r.out.assigned
           n == Len(A)
           Stays(t) == \A i \in 1 .. n : A[i].task # t
       IN /\ n > 0 => A[1].available = available_workers
          /\ r.available_workers
               = SubSeq(available_workers, 1, Len(available_workers) - n)
          /\ r.executing_workers
               = executing_workers \o [i \in 1 .. n |-> A[i].worker]
          /\ r.dispatch_task_queue = SelectSeq(dispatch_task_queue, Stays)
          /\ Len(r.dispatch_task_queue) = Len(dispatch_task_queue) - n
          /\ r.waiting_task_queue = waiting_task_queue
          /\ r.blocked_workers = blocked_workers

C36_Step ==
  /\ Running =>
       \A w \in Range(blocked_workers) :
         LET s == Cur(FALSE, FALSE)
             r == handle_worker_unblocked(s, w)
         IN /\ ~r.aborted
            /\ Range(r.blocked_workers) = Range(blocked_workers) \ {w}
            /\ Len(r.blocked_workers) = Len(blocked_workers) - 1
            /\ r.executing_workers = Append(executing_workers, w)
            /\ r = [s EXCEPT !.blocked_workers = r.blocked_workers,
                             !.executing_workers = r.executing_workers]
  /\ (last'.ev = "worker_unblocked" /\ process_state' = "running") =>
       /\ last'.arg \in Range(blocked_workers)
       /\ last'.arg \notin Range(blocked_workers')
       /\ executing_workers' = Append(executing_workers, last'.arg)
       /\ last'.out = NoOutput
       /\ UNCHANGED << waiting_task_queue, dispatch_task_queue,
                       available_workers, local_objects, remote_objects,
                       local_actor_infos, cached_submitted_actor_tasks,
                       actor_mapping, task_in_progress, child_pids >>

C36_UnblockedMovesWorkerOnly == [][C36_Step]_vars

(* A worker resumed while a task sits in the dispatch queue with no        *)
(* worker available and none pending: a dispatch pass would have asked for *)
(* a worker, and none was asked for.                                       *)
C36_Witness ==
  /\ process_state = "running"
  /\ last.ev = "worker_unblocked"
  /\ last.arg \in Range(executing_workers)
  /\ dispatch_task_queue # << >>
  /\ available_workers = << >>
  /\ child_pids = 0
  /\ dispatch_tasks(Cur(FALSE, FALSE)).out.spawned = 1

(* C37: handle_actor_worker_disconnect(a) aborts for an actor without      *)
(* LocalActorInfo; otherwise it erases the LocalActorInfo of a, queue      *)
(* included, assigns nothing and leaves the other actors, the cache and    *)
(* the mapping alone.  The next task that arrives for a creates a fresh    *)
(* LocalActorInfo (task_counter 0, no worker, worker_available false)      *)
(* whose queue holds that task only, and nothing is assigned.              *)
C37_ActorWorkerDisconnect ==
  Running =>
    \A a \in Actors :
      LET s == Cur(FALSE, FALSE)
          r == handle_actor_worker_disconnect(s, a)
      IN /\ r.aborted <=> a \notin DOMAIN local_actor_infos
         /\ ~r.aborted =>
              /\ a \notin DOMAIN r.local_actor_infos
              /\ r.local_actor_infos
                   = Restrict(local_actor_infos, DOMAIN local_actor_infos \ {a})
              /\ r.out = NoOutput
              /\ r.cached_submitted_actor_tasks = cached_submitted_actor_tasks
              /\ r.actor_mapping = actor_mapping
              /\ \A spec \in ActorTasks, from_global_scheduler \in BOOLEAN :
                   spec.actor_id = a =>
                     LET q == add_task_to_actor_queue(r, spec,
                                                      from_global_scheduler)
                     IN /\ ~q.aborted
                        /\ q.local_actor_infos[a]
                             = [task_counter |-> 0, task_queue |-> << spec >>,
                                worker |-> NULL, worker_available |-> FALSE]
                        /\ q.out.actor_assigned = << >>
              /\ \A spec \in ActorTasks :
                   (/\ spec.actor_id = a
                    /\ a \in DOMAIN actor_mapping
                    /\ actor_mapping[a] = "self") =>
                     LET q == handle_actor_task_submitted(r, spec)
                     IN /\ ~q.aborted
                        /\ q.local_actor_infos[a]
                             = [task_counter |-> 0, task_queue |-> << spec >>,
                                worker |-> NULL, worker_available |-> FALSE]
                        /\ q.out.actor_assigned = << >>

(* An actor that has run a task, has its worker connected and has a task   *)
(* queued can be disconnected.                                             *)
C37_Witness ==
  /\ process_state = "running"
  /\ \E a \in DOMAIN local_actor_infos :
       /\ local_actor_infos[a].task_counter > 0
       /\ local_actor_infos[a].task_queue # << >>
       /\ local_actor_infos[a].worker # NULL
       /\ ~handle_actor_worker_disconnect(Cur(FALSE, FALSE), a).aborted
       /\ a \in DOMAIN actor_mapping

====
